---- MODULE Spec2Model ----
(***************************************************************************)
(* Model of the teleport-exporter collector                                *)
(* (internal/collector/collector.go): the poll cycle `collect`, the        *)
(* per-kind update routines, the stale-series cleanup of the data-store    *)
(* breakdowns, the consecutive-error counter and calculateNextInterval,    *)
(* and the scheduler loop Run with the cancellation of its context.        *)
(*                                                                         *)
(* Strings that the code inspects character by character (hostnames,       *)
(* label values, Kubernetes cluster names) are sequences of one-character  *)
(* strings; strings that are only compared and used as map keys (cluster   *)
(* identity, protocol, type) are TLA+ strings.                             *)
(* A GaugeVec / CounterVec is a function whose domain is the set of label  *)
(* tuples that currently have a series.                                    *)
(***************************************************************************)
EXTENDS Integers, Sequences, FiniteSets, TLC

\* ------------------------------------------------------------------ bounds
\* Poll cycles (or direct update calls) explored per behaviour.
MaxCycles == 2
\* Largest consecutive-error count explored by the backoff specification.
MaxErrors == 9
\* rand.Float64() is sampled at k / JitterSteps, k \in 0 .. JitterSteps-1.
JitterSteps == 4
\* Longest snapshot handed to an update routine by a direct call.
MaxRecords == 2
\* Poll cycles Run starts per behaviour.
MaxRunCycles == 1
MaxNameLen == 3

\* ------------------------------------------------------- program constants
\* collector.go:33  maxBackoffMultiplier = 8
maxBackoffMultiplier == 8
\* collector.go:35  jitterFraction = 0.1, kept as the rational 1 / 10
jitterFractionDen == 10

\* The cluster identities GetClusterName may return.
Identities == {"A", "B"}
\* Configured refresh intervals (time.Duration, in abstract ticks).
RefreshIntervals == {1, 7, 60, 1000}
\* Refresh intervals Run is started with: one below 4, for which
\* refreshInterval / 4 is 0, and one that leaves room for a non-zero delay.
RunIntervals == {3, 8}

VARIABLES
  \* Collector fields (collector.go:47-58)
  refreshInterval, lastDbProtocols, lastDbTypes, lastClusterName,
  consecutiveErrors,
  \* the metrics registry (internal/metrics/metrics.go): one field per family
  metrics,
  \* position of the collector goroutine and the locals of collect /
  \* updateDatabaseMetrics that live across steps
  pc, caller, clusterName, hadErrors, startTime, dbArgs, dbLocal,
  \* environment: clock, remote inventory of the running cycle, cycle count
  now, inv, cycles,
  \* result of the last calculateNextInterval call
  calc,
  \* history: state at the start of the running cycle / call, what failed,
  \* which update routines ran, DeleteLabelValues calls of the last update,
  \* arguments of the previous direct update call
  pre, failed, updated, deleted, prevArgs,
  \* the earlier revision of the collector that groups nodes by sub-kind
  \* (collector_test.go:257-270): its fields and series, and its last call
  nodeTracker, nodeCall,
  \* c.mu (collector.go:53), the cancellation state of the context handed to
  \* Run (main.go:100), Run's locals and counters (collector.go:72-98), and
  \* the fetch calls of the running cycle with their outcomes (history)
  mu, ctxDone, run, fetchLog,
  \* history: the accesses to the collector's shared mutable fields made by
  \* the last step, each with the lock mode held; the failure streak wiped by
  \* the last reset of the error counter and what followed it; the last
  \* direct application of a pure function or a stateless update routine
  accesses, pacing, probe

vars == <<refreshInterval, lastDbProtocols, lastDbTypes, lastClusterName,
          consecutiveErrors, metrics, pc, caller, clusterName, hadErrors,
          startTime, dbArgs, dbLocal, now, inv, cycles, calc, pre, failed,
          updated, deleted, prevArgs, nodeTracker, nodeCall, mu, ctxDone, run,
          fetchLog, accesses, pacing, probe>>

\* ----------------------------------------------------------------- helpers
Min(a, b) == IF a < b THEN a ELSE b

RECURSIVE Pow2(_)
Pow2(n) == IF n = 0 THEN 1 ELSE 2 * Pow2(n - 1)

\* Go's float64 -> integer conversion truncates toward zero.
TruncDiv(a, b) == IF a >= 0 THEN a \div b ELSE -((-a) \div b)

EmptyVec == [x \in {} |-> 0]

\* vec.WithLabelValues(k).Set(v)
SetLabel(vec, k, v) ==
  [x \in (DOMAIN vec) \cup {k} |-> IF x = k THEN v ELSE vec[x]]

\* variant: Inc starts the counter over at 1
IncLabelRestarts(vec, k) == SetLabel(vec, k, 1)

\* vec.WithLabelValues(k).Inc()
IncLabel(vec, k) ==
  SetLabel(vec, k, (IF k \in DOMAIN vec THEN vec[k] ELSE 0) + 1)

\* vec.DeleteLabelValues(k): a no-op when the series does not exist
DeleteLabel(vec, k) == [x \in (DOMAIN vec) \ {k} |-> vec[x]]

RECURSIVE DeleteLabels(_, _)
DeleteLabels(vec, ks) ==
  IF ks = {} THEN vec
  ELSE LET k == CHOOSE x \in ks : TRUE
       IN DeleteLabels(DeleteLabel(vec, k), ks \ {k})

RECURSIVE SeqsUpTo(_, _)
SeqsUpTo(S, n) ==
  IF n = 0 THEN {<<>>}
  ELSE LET shorter == SeqsUpTo(S, n - 1)
       IN shorter \cup {Append(s, x) : s \in {t \in shorter : Len(t) = n - 1}, x \in S}

\* ------------------------------------------------ backoff (collector.go:100)
\* multiplier := 1 << min(errors, maxBackoffMultiplier)
BackoffBase(errors) ==
  IF errors > 0
    THEN Pow2(Min(errors, maxBackoffMultiplier)) * refreshInterval
    ELSE refreshInterval

\* variant: a jitter fraction of 0.2
JitterWide(interval, k) ==
  TruncDiv(2 * interval * (2 * k - JitterSteps), jitterFractionDen * JitterSteps)

\* jitter := time.Duration(float64(interval) * jitterFraction * (2*r - 1))
\* with r = k / JitterSteps, in exact arithmetic
Jitter(interval, k) ==
  TruncDiv(interval * (2 * k - JitterSteps), jitterFractionDen * JitterSteps)

\* the value calculateNextInterval returns when rand.Float64() = k/JitterSteps
NextIntervalValue(errors, k) ==
  LET interval == BackoffBase(errors) IN interval + Jitter(interval, k)

\* -------------------------------------------- inventory records (client.go)
\* Literal "unknown" as extractKubeCluster returns it.
Unknown == <<"u", "n", "k", "n", "o", "w", "n">>

NoLabels == [x \in {} |-> <<>>]

\* teleport.NodeInfo: the fields the collector reads
NodeLabelled ==
  [Hostname |-> <<"h", ".", "c">>,
   Labels |-> [x \in {"giantswarm.io/cluster"} |-> <<"p">>]]
NodeDotted == [Hostname |-> <<"h", ".", "c">>, Labels |-> NoLabels]
NodeBare == [Hostname |-> <<"h">>, Labels |-> NoLabels]

\* teleport.KubeClusterInfo.Name
KubeManagement == [Name |-> <<"g">>]
KubeWorkload == [Name |-> <<"g", "-", "a">>]

\* teleport.DatabaseInfo: Protocol and Type
DbRecords ==
  {[Protocol |-> "postgres", Type |-> "rds"],
   [Protocol |-> "mysql", Type |-> ""],
   [Protocol |-> "", Type |-> "rds"]}

\* The remote inventory a poll cycle may meet: what the four fetches return.
Inventory(i) ==
  IF i = "i0"
    THEN [nodes |-> <<>>, kube |-> <<>>, dbs |-> <<>>, apps |-> <<>>]
  ELSE IF i = "i1"
    THEN [nodes |-> <<NodeLabelled, NodeBare>>,
          kube |-> <<KubeManagement, KubeWorkload>>,
          dbs |-> <<[Protocol |-> "postgres", Type |-> "rds"],
                    [Protocol |-> "mysql", Type |-> ""]>>,
          apps |-> <<[Name |-> "grafana"], [Name |-> "prometheus"]>>]
    ELSE [nodes |-> <<NodeDotted>>,
          kube |-> <<KubeManagement>>,
          dbs |-> <<[Protocol |-> "postgres", Type |-> ""]>>,
          apps |-> <<[Name |-> "grafana"]>>]

InventoryIds == {"i0", "i1", "i2"}

\* Snapshots handed to updateDatabaseMetrics by direct calls.
DbSnapshots == SeqsUpTo(DbRecords, MaxRecords)

\* ------------------------------------- cluster-name inference (:238-288)
RECURSIVE splitLoop(_, _, _, _)
splitLoop(s, i, start, parts) ==
  IF i > Len(s)
    THEN IF start <= Len(s) THEN Append(parts, SubSeq(s, start, Len(s)))
                            ELSE parts
    ELSE IF s[i] = "."
           THEN splitLoop(s, i + 1, i + 1, Append(parts, SubSeq(s, start, i - 1)))
           ELSE splitLoop(s, i + 1, start, parts)

splitByDot(s) == IF s = <<>> THEN << <<>> >> ELSE splitLoop(s, 1, 1, <<>>)

clusterLabels ==
  <<"giantswarm.io/cluster", "cluster", "kubernetes-cluster", "kube-cluster",
    "teleport.dev/kubernetes-cluster">>

\* variant: the first priority key that is present wins, empty or not
extractKubeClusterFirstPresent(node) ==
  LET hits == {i \in 1 .. Len(clusterLabels) : clusterLabels[i] \in DOMAIN node.Labels}
      first == CHOOSE i \in hits : \A j \in hits : i <= j
      parts == splitByDot(node.Hostname)
  IN IF hits # {} THEN node.Labels[clusterLabels[first]]
     ELSE IF node.Hostname # <<>> /\ Len(parts) >= 2 THEN parts[2]
     ELSE Unknown

extractKubeCluster(node) ==
  LET hits == {i \in 1 .. Len(clusterLabels) :
                 /\ clusterLabels[i] \in DOMAIN node.Labels
                 /\ node.Labels[clusterLabels[i]] # <<>>}
      first == CHOOSE i \in hits : \A j \in hits : i <= j
      parts == splitByDot(node.Hostname)
  IN IF hits # {} THEN node.Labels[clusterLabels[first]]
     ELSE IF node.Hostname # <<>> /\ Len(parts) >= 2 THEN parts[2]
     ELSE Unknown

\* variant: only a hyphen after the first character counts
isWorkloadClusterInner(name) == \E i \in 2 .. Len(name) : name[i] = "-"

\* isWorkloadCluster (:313-320)
isWorkloadCluster(name) == \E i \in 1 .. Len(name) : name[i] = "-"

\* -------------------------------------------- update routines (:216-379)
\* updateNodeMetrics (:216-236)
updateNodeMetrics(m, cn, nodes) ==
  LET unidentified == {i \in 1 .. Len(nodes) : extractKubeCluster(nodes[i]) = Unknown}
  IN [m EXCEPT
        !.NodesTotal = SetLabel(@, cn, Len(nodes)),
        !.NodesIdentifiedTotal = SetLabel(@, cn, Len(nodes) - Cardinality(unidentified)),
        !.NodesUnidentifiedTotal = SetLabel(@, cn, Cardinality(unidentified))]

\* variant: every record is counted as a management cluster
updateKubeClusterMetricsAllManagement(m, cn, clusters) ==
  [m EXCEPT
     !.KubeClustersTotal = SetLabel(@, cn, Len(clusters)),
     !.KubeManagementClustersTotal = SetLabel(@, cn, Len(clusters)),
     !.KubeWorkloadClustersTotal = SetLabel(@, cn, 0)]

\* updateKubeClusterMetrics (:290-310)
updateKubeClusterMetrics(m, cn, clusters) ==
  LET workload == {i \in 1 .. Len(clusters) : isWorkloadCluster(clusters[i].Name)}
  IN [m EXCEPT
        !.KubeClustersTotal = SetLabel(@, cn, Len(clusters)),
        !.KubeManagementClustersTotal = SetLabel(@, cn, Len(clusters) - Cardinality(workload)),
        !.KubeWorkloadClustersTotal = SetLabel(@, cn, Cardinality(workload))]

\* variant: the application total is reset before it is set
updateAppMetricsAfterReset(m, cn, apps) ==
  [m EXCEPT !.AppsTotal = SetLabel(EmptyVec, cn, Len(apps))]

\* updateAppMetrics (:376-379)
updateAppMetrics(m, cn, apps) ==
  [m EXCEPT !.AppsTotal = SetLabel(@, cn, Len(apps))]

\* updateDatabaseMetrics, normalisation of empty tags (:331-338)
NormalizeTag(tag) == IF tag = "" THEN "unknown" ELSE tag

\* variant: records with an empty protocol are skipped instead of normalised
protocolCountsSkipEmpty(databases) ==
  LET keys == {databases[i].Protocol : i \in 1 .. Len(databases)} \ {""}
  IN [p \in keys |->
        Cardinality({i \in 1 .. Len(databases) : databases[i].Protocol = p})]

\* protocolCounts / typeCounts (:327-341)
protocolCounts(databases) ==
  LET keys == {NormalizeTag(databases[i].Protocol) : i \in 1 .. Len(databases)}
  IN [p \in keys |->
        Cardinality({i \in 1 .. Len(databases) : NormalizeTag(databases[i].Protocol) = p})]

typeCounts(databases) ==
  LET keys == {NormalizeTag(databases[i].Type) : i \in 1 .. Len(databases)}
  IN [t \in keys |->
        Cardinality({i \in 1 .. Len(databases) : NormalizeTag(databases[i].Type) = t})]

\* for key, count := range counts { vec.WithLabelValues(cn, key).Set(count) }
RECURSIVE SetCounts(_, _, _, _)
SetCounts(vec, cn, counts, keys) ==
  IF keys = {} THEN vec
  ELSE LET k == CHOOSE x \in keys : TRUE
       IN SetCounts(SetLabel(vec, <<cn, k>>, counts[k]), cn, counts, keys \ {k})

\* variant: the cleanup loop forgets the membership test and deletes every
\* key tracked last time
VanishedKeysAll(last, current) == last

\* the keys whose series the cleanup loop deletes (:349-351, :361-363):
\* tracked last time, absent from the current snapshot
VanishedKeys(last, current) == last \ current

\* the label tuples the cleanup loop passes to DeleteLabelValues: the
\* identity is c.lastClusterName as it stands when the loop runs (:351, :363)
DeleteTargets(last, current) ==
  {<<lastClusterName, k>> : k \in VanishedKeys(last, current)}

\* ------------------------------------------------------------ initial state
\* promauto registers every family with no series; the plain gauge
\* TeleportUp starts at 0 (metrics.go:32-137).
InitMetrics ==
  [TeleportUp |-> 0,
   NodesTotal |-> EmptyVec, NodesIdentifiedTotal |-> EmptyVec,
   NodesUnidentifiedTotal |-> EmptyVec,
   KubeClustersTotal |-> EmptyVec, KubeManagementClustersTotal |-> EmptyVec,
   KubeWorkloadClustersTotal |-> EmptyVec,
   DatabasesTotal |-> EmptyVec, DatabasesByProtocolTotal |-> EmptyVec,
   DatabasesByTypeTotal |-> EmptyVec,
   AppsTotal |-> EmptyVec,
   CollectDuration |-> EmptyVec, CollectErrorsTotal |-> EmptyVec,
   LastSuccessfulCollectTime |-> EmptyVec]

\* The collector state a cycle or a call starts from (history only).
Snapshot ==
  [metrics |-> metrics, lastDbProtocols |-> lastDbProtocols,
   lastDbTypes |-> lastDbTypes, lastClusterName |-> lastClusterName,
   consecutiveErrors |-> consecutiveErrors]

NoArgs == [clusterName |-> "", databases |-> <<>>]
NoLocal == [protocolCounts |-> EmptyVec, typeCounts |-> EmptyVec,
            currentProtocols |-> {}, currentTypes |-> {}]
NoCalc == [done |-> FALSE, errors |-> 0, value |-> 0]

\* the sub-kind revision's collector after New (collector_test.go:273-283),
\* with the two families its node update writes
NewNodeTracker ==
  [lastNodes |-> {}, lastKubeClusters |-> {}, lastApps |-> {},
   lastClusterName |-> "", NodeInfo |-> EmptyVec, NodesTotal |-> EmptyVec,
   KubeClusterInfo |-> EmptyVec, KubeClustersTotal |-> EmptyVec,
   AppInfo |-> EmptyVec, AppsTotal |-> EmptyVec]

\* no routine of the sub-kind revision has been called yet
NoNodeCall ==
  [kind |-> "none", clusterName |-> "", nodes |-> <<>>, pre |-> NewNodeTracker,
   deleted |-> {}]

\* Run has not been started: poll cycles are driven directly
NoRun == [active |-> FALSE, initialJitter |-> 0, interval |-> 0, calcs |-> 0,
          completed |-> 0, cyclesAtCancel |-> 0, cancelledAt |-> "none"]

NoPacing == [wiped |-> 0, phase |-> "none"]
NoProbe == [fn |-> "none", arg |-> <<>>, result |-> <<>>, done |-> FALSE]

\* New (:61-69) with the given refresh interval
\* The state New returns (:61-69), with the helper call p about to be made.
InitProbing(interval, p) ==
  /\ accesses = {}
  /\ pacing = NoPacing
  /\ probe = p
  /\ mu = "unlocked"
  /\ ctxDone = FALSE
  /\ run = NoRun
  /\ fetchLog = <<>>
  /\ refreshInterval = interval
  /\ lastDbProtocols = {}
  /\ lastDbTypes = {}
  /\ lastClusterName = ""
  /\ consecutiveErrors = 0
  /\ metrics = InitMetrics
  /\ pc = "idle"
  /\ caller = "none"
  /\ clusterName = ""
  /\ hadErrors = FALSE
  /\ startTime = 0
  /\ dbArgs = NoArgs
  /\ dbLocal = NoLocal
  /\ now = 0
  /\ inv = "i1"
  /\ cycles = 0
  /\ calc = NoCalc
  /\ pre = [metrics |-> InitMetrics, lastDbProtocols |-> {}, lastDbTypes |-> {},
            lastClusterName |-> "", consecutiveErrors |-> 0]
  /\ failed = {}
  /\ updated = {}
  /\ deleted = {}
  /\ prevArgs = NoArgs
  /\ nodeTracker = NewNodeTracker
  /\ nodeCall = NoNodeCall

InitWith(interval) == InitProbing(interval, NoProbe)

Init == InitWith(60)

collectorVars == <<refreshInterval, lastDbProtocols, lastDbTypes, lastClusterName,
                   consecutiveErrors>>
dbCallVars == <<caller, dbArgs, dbLocal, deleted, prevArgs>>
trackerVars == <<nodeTracker, nodeCall>>
runVars == <<ctxDone, run>>

\* the mode in which c.mu is held while updateDatabaseMetrics runs
HeldMode == IF mu = "locked" THEN "W" ELSE "none"

\* c.consecutiveErrors++ under c.mu.Lock() (:204-206)
IncrementAccesses ==
  {<<"consecutiveErrors", "read", "W">>, <<"consecutiveErrors", "write", "W">>}
\* c.consecutiveErrors = 0 under c.mu.Lock() (:211-213)
ResetAccesses == {<<"consecutiveErrors", "write", "W">>}
\* errors := c.consecutiveErrors under c.mu.RLock() (:102-104)
IntervalAccesses == {<<"consecutiveErrors", "read", "R">>}

\* the error counter was reset from n / was raised / an interval was computed
PacingAfterReset(n) == [wiped |-> n, phase |-> "reset"]
PacingAfterIncrement == [pacing EXCEPT !.phase = "none"]
PacingAfterInterval ==
  [pacing EXCEPT !.phase = IF pacing.phase = "reset" THEN "interval" ELSE "none"]

\* c.mu.Lock() / c.mu.Unlock(); Lock is taken with the mutex free
Lock(m) == "locked"

\* variant: the deferred Unlock is missing
UnlockMissing(m) == m

Unlock(m) == "unlocked"

\* the error a fetch returns: the context's own error once the context
\* handed down by Run (:83, :95, :130-180) is cancelled
FetchError == IF ctxDone THEN "canceled" ELSE "error"

\* variant: Run returns when collect has returned
AfterCollectReturns == IF run.active THEN "returned" ELSE "idle"

\* where the collector goroutine continues when collect returns: in Run's
\* loop (:86-88), or with the next direct call
AfterCollect == IF run.active THEN "calc" ELSE "idle"

\* poll cycles explored: started by Run, or driven directly
CycleBound == IF run.active THEN MaxRunCycles ELSE MaxCycles

\* collect has returned once more
CollectReturned == [run EXCEPT !.completed = @ + 1]

\* ------------------------------------------------- collect (:123-200)
\* incrementErrors (:203-207) / resetErrors (:210-214)
incrementErrors(n) == n + 1

\* variant: a clean cycle takes one failure off the counter
resetErrorsDecrements(n) == IF n > 0 THEN n - 1 ELSE 0

resetErrors(n) == 0

\* variant: the error is always counted under the sentinel
errorClusterNameSentinel == "unknown"

\* label of the error metric when the identity fetch fails (:135-138)
errorClusterName == IF lastClusterName = "" THEN "unknown" ELSE lastClusterName

\* variant: the identity failure also resets every exported family
GetClusterNameFailsResets ==
  /\ pc = "idle"
  /\ mu = "unlocked"
  /\ cycles < CycleBound
  /\ cycles' = cycles + 1
  /\ \E i \in InventoryIds : inv' = i
  /\ now' = now + 1
  /\ startTime' = now
  /\ pre' = Snapshot
  /\ failed' = {"identity"}
  /\ updated' = {}
  /\ hadErrors' = FALSE
  /\ metrics' = [InitMetrics EXCEPT
                   !.TeleportUp = 0,
                   !.CollectErrorsTotal = IncLabel(metrics.CollectErrorsTotal, errorClusterName)]
  /\ consecutiveErrors' = incrementErrors(consecutiveErrors)
  /\ pc' = AfterCollect
  /\ UNCHANGED <<refreshInterval, lastDbProtocols, lastDbTypes, lastClusterName,
                 clusterName, calc>>
  /\ UNCHANGED dbCallVars
  /\ UNCHANGED trackerVars
  /\ fetchLog' = << <<"identity", FetchError>> >>
  /\ run' = CollectReturned
  /\ UNCHANGED <<mu, ctxDone>>
  /\ accesses' = {<<"lastClusterName", "read", "none">>} \cup IncrementAccesses
  /\ pacing' = PacingAfterIncrement
  /\ UNCHANGED probe

\* :126-142  GetClusterName returns an error: the cycle ends here
GetClusterNameFails ==
  /\ pc = "idle"
  /\ mu = "unlocked"
  /\ cycles < CycleBound
  /\ cycles' = cycles + 1
  /\ \E i \in InventoryIds : inv' = i
  /\ now' = now + 1
  /\ startTime' = now
  /\ pre' = Snapshot
  /\ failed' = {"identity"}
  /\ updated' = {}
  /\ hadErrors' = FALSE
  /\ metrics' = [metrics EXCEPT
                   !.TeleportUp = 0,
                   !.CollectErrorsTotal = IncLabel(@, errorClusterName)]
  /\ consecutiveErrors' = incrementErrors(consecutiveErrors)
  /\ pc' = AfterCollect
  /\ UNCHANGED <<refreshInterval, lastDbProtocols, lastDbTypes, lastClusterName,
                 clusterName, calc>>
  /\ UNCHANGED dbCallVars
  /\ UNCHANGED trackerVars
  /\ fetchLog' = << <<"identity", FetchError>> >>
  /\ run' = CollectReturned
  /\ UNCHANGED <<mu, ctxDone>>
  /\ accesses' = {<<"lastClusterName", "read", "none">>} \cup IncrementAccesses
  /\ pacing' = PacingAfterIncrement
  /\ UNCHANGED probe

\* variant: a successful identity fetch leaves the connectivity gauge alone
GetClusterNameOkKeepsGauge ==
  /\ pc = "idle"
  /\ mu = "unlocked"
  /\ ~ctxDone
  /\ cycles < CycleBound
  /\ cycles' = cycles + 1
  /\ \E i \in InventoryIds : inv' = i
  /\ now' = now + 1
  /\ startTime' = now
  /\ pre' = Snapshot
  /\ failed' = {}
  /\ updated' = {}
  /\ hadErrors' = FALSE
  /\ \E id \in Identities :
       /\ clusterName' = id
       /\ lastClusterName' = id
  /\ pc' = "getNodes"
  /\ UNCHANGED <<refreshInterval, lastDbProtocols, lastDbTypes, consecutiveErrors, calc,
                 metrics>>
  /\ UNCHANGED dbCallVars
  /\ UNCHANGED trackerVars
  /\ fetchLog' = << <<"identity", "ok">> >>
  /\ UNCHANGED mu
  /\ UNCHANGED runVars
  /\ accesses' = {<<"lastClusterName", "write", "W">>}
  /\ UNCHANGED <<pacing, probe>>

\* :126-147  GetClusterName succeeds with identity id
GetClusterNameOk ==
  /\ pc = "idle"
  /\ mu = "unlocked"
  /\ ~ctxDone
  /\ cycles < CycleBound
  /\ cycles' = cycles + 1
  /\ \E i \in InventoryIds : inv' = i
  /\ now' = now + 1
  /\ startTime' = now
  /\ pre' = Snapshot
  /\ failed' = {}
  /\ updated' = {}
  /\ hadErrors' = FALSE
  /\ \E id \in Identities :
       /\ clusterName' = id
       /\ lastClusterName' = id
  /\ metrics' = [metrics EXCEPT !.TeleportUp = 1]
  /\ pc' = "getNodes"
  /\ UNCHANGED <<refreshInterval, lastDbProtocols, lastDbTypes, consecutiveErrors, calc>>
  /\ UNCHANGED dbCallVars
  /\ UNCHANGED trackerVars
  /\ fetchLog' = << <<"identity", "ok">> >>
  /\ UNCHANGED mu
  /\ UNCHANGED runVars
  /\ accesses' = {<<"lastClusterName", "write", "W">>}
  /\ UNCHANGED <<pacing, probe>>

\* variant: a failed fetch still runs the update routine, on the nil slice
FetchFailsUpdatesAnyway(at, kind, next) ==
  /\ pc = at
  /\ now' = now + 1
  /\ metrics' =
       LET m1 == [metrics EXCEPT !.CollectErrorsTotal = IncLabel(@, clusterName)]
       IN CASE kind = "nodes" -> updateNodeMetrics(m1, clusterName, <<>>)
            [] kind = "kube" -> updateKubeClusterMetrics(m1, clusterName, <<>>)
            [] kind = "apps" -> updateAppMetrics(m1, clusterName, <<>>)
            [] OTHER -> m1
  /\ hadErrors' = TRUE
  /\ failed' = failed \cup {kind}
  /\ pc' = next
  /\ UNCHANGED <<clusterName, startTime, inv, cycles, calc, pre, updated>>
  /\ UNCHANGED collectorVars
  /\ UNCHANGED dbCallVars
  /\ UNCHANGED trackerVars
  /\ fetchLog' = Append(fetchLog, <<kind, FetchError>>)
  /\ UNCHANGED mu
  /\ UNCHANGED runVars
  /\ accesses' = {}
  /\ UNCHANGED <<pacing, probe>>

\* variant: the error branch returns from collect
FetchFailsAbandons(at, kind, next) ==
  /\ pc = at
  /\ now' = now + 1
  /\ metrics' = [metrics EXCEPT !.CollectErrorsTotal = IncLabel(@, clusterName)]
  /\ hadErrors' = TRUE
  /\ failed' = failed \cup {kind}
  /\ pc' = AfterCollect
  /\ UNCHANGED <<clusterName, startTime, inv, cycles, calc, pre, updated>>
  /\ UNCHANGED collectorVars
  /\ UNCHANGED dbCallVars
  /\ UNCHANGED trackerVars
  /\ fetchLog' = Append(fetchLog, <<kind, FetchError>>)
  /\ UNCHANGED mu
  /\ UNCHANGED runVars
  /\ accesses' = {}
  /\ UNCHANGED <<pacing, probe>>

\* variant: the error branch calls the same fetch again
FetchFailsRetries(at, kind, next) ==
  /\ pc = at
  /\ now' = now + 1
  /\ metrics' = [metrics EXCEPT !.CollectErrorsTotal = IncLabel(@, clusterName)]
  /\ hadErrors' = TRUE
  /\ failed' = failed \cup {kind}
  /\ pc' = at
  /\ UNCHANGED <<clusterName, startTime, inv, cycles, calc, pre, updated>>
  /\ UNCHANGED collectorVars
  /\ UNCHANGED dbCallVars
  /\ UNCHANGED trackerVars
  /\ fetchLog' = Append(fetchLog, <<kind, FetchError>>)
  /\ UNCHANGED mu
  /\ UNCHANGED runVars
  /\ accesses' = {}
  /\ UNCHANGED <<pacing, probe>>

\* a per-kind fetch returns an error (:151-154, :161-164, :171-174, :181-184)
FetchFails(at, kind, next) ==
  /\ pc = at
  /\ now' = now + 1
  /\ metrics' = [metrics EXCEPT !.CollectErrorsTotal = IncLabel(@, clusterName)]
  /\ hadErrors' = TRUE
  /\ failed' = failed \cup {kind}
  /\ pc' = next
  /\ UNCHANGED <<clusterName, startTime, inv, cycles, calc, pre, updated>>
  /\ UNCHANGED collectorVars
  /\ UNCHANGED dbCallVars
  /\ UNCHANGED trackerVars
  /\ fetchLog' = Append(fetchLog, <<kind, FetchError>>)
  /\ UNCHANGED mu
  /\ UNCHANGED runVars
  /\ accesses' = {}
  /\ UNCHANGED <<pacing, probe>>

GetNodesFails == FetchFails("getNodes", "nodes", "getKubeClusters")
GetKubeClustersFails == FetchFails("getKubeClusters", "kube", "getDatabases")
GetDatabasesFails == FetchFails("getDatabases", "databases", "getApps")
GetAppsFails == FetchFails("getApps", "apps", "finish")

\* :150, :155-157
GetNodesOk ==
  /\ pc = "getNodes"
  /\ ~ctxDone
  /\ now' = now + 1
  /\ metrics' = updateNodeMetrics(metrics, clusterName, Inventory(inv).nodes)
  /\ updated' = updated \cup {"nodes"}
  /\ pc' = "getKubeClusters"
  /\ UNCHANGED <<clusterName, hadErrors, startTime, inv, cycles, calc, pre, failed>>
  /\ UNCHANGED collectorVars
  /\ UNCHANGED dbCallVars
  /\ UNCHANGED trackerVars
  /\ fetchLog' = Append(fetchLog, <<"nodes", "ok">>)
  /\ UNCHANGED mu
  /\ UNCHANGED runVars
  /\ accesses' = {}
  /\ UNCHANGED <<pacing, probe>>

\* :160, :165-167
GetKubeClustersOk ==
  /\ pc = "getKubeClusters"
  /\ ~ctxDone
  /\ now' = now + 1
  /\ metrics' = updateKubeClusterMetrics(metrics, clusterName, Inventory(inv).kube)
  /\ updated' = updated \cup {"kube"}
  /\ pc' = "getDatabases"
  /\ UNCHANGED <<clusterName, hadErrors, startTime, inv, cycles, calc, pre, failed>>
  /\ UNCHANGED collectorVars
  /\ UNCHANGED dbCallVars
  /\ UNCHANGED trackerVars
  /\ fetchLog' = Append(fetchLog, <<"kube", "ok">>)
  /\ UNCHANGED mu
  /\ UNCHANGED runVars
  /\ accesses' = {}
  /\ UNCHANGED <<pacing, probe>>

\* :170, :175-177  the fetch succeeds and updateDatabaseMetrics is entered
GetDatabasesOk ==
  /\ pc = "getDatabases"
  /\ ~ctxDone
  /\ mu = "unlocked"
  /\ now' = now + 1
  /\ updated' = updated \cup {"databases"}
  /\ caller' = "collect"
  /\ dbArgs' = [clusterName |-> clusterName, databases |-> Inventory(inv).dbs]
  /\ prevArgs' = dbArgs
  /\ dbLocal' = NoLocal
  /\ deleted' = {}
  /\ pc' = "dbCount"
  /\ UNCHANGED <<metrics, clusterName, hadErrors, startTime, inv, cycles, calc, pre, failed>>
  /\ UNCHANGED collectorVars
  /\ UNCHANGED trackerVars
  /\ mu' = Lock(mu)
  /\ fetchLog' = Append(fetchLog, <<"databases", "ok">>)
  /\ UNCHANGED runVars
  /\ accesses' = {}
  /\ UNCHANGED <<pacing, probe>>

\* :180, :185-187
GetAppsOk ==
  /\ pc = "getApps"
  /\ ~ctxDone
  /\ now' = now + 1
  /\ metrics' = updateAppMetrics(metrics, clusterName, Inventory(inv).apps)
  /\ updated' = updated \cup {"apps"}
  /\ pc' = "finish"
  /\ UNCHANGED <<clusterName, hadErrors, startTime, inv, cycles, calc, pre, failed>>
  /\ UNCHANGED collectorVars
  /\ UNCHANGED dbCallVars
  /\ UNCHANGED trackerVars
  /\ fetchLog' = Append(fetchLog, <<"apps", "ok">>)
  /\ UNCHANGED mu
  /\ UNCHANGED runVars
  /\ accesses' = {}
  /\ UNCHANGED <<pacing, probe>>

\* variant: the last-success timestamp is stamped by every cycle that reaches
\* its end
FinishStampsAlways ==
  /\ pc = "finish"
  /\ mu = "unlocked"
  /\ consecutiveErrors' =
       IF hadErrors THEN incrementErrors(consecutiveErrors)
                    ELSE resetErrors(consecutiveErrors)
  /\ metrics' =
       [metrics EXCEPT !.CollectDuration = SetLabel(@, clusterName, now - startTime),
                       !.LastSuccessfulCollectTime = SetLabel(@, clusterName, now)]
  /\ pc' = AfterCollect
  /\ UNCHANGED <<refreshInterval, lastDbProtocols, lastDbTypes, lastClusterName,
                 clusterName, hadErrors, startTime, now, inv, cycles, calc, pre,
                 failed, updated>>
  /\ UNCHANGED dbCallVars
  /\ UNCHANGED trackerVars
  /\ run' = CollectReturned
  /\ UNCHANGED <<mu, ctxDone, fetchLog>>
  /\ accesses' = (IF hadErrors THEN IncrementAccesses ELSE ResetAccesses)
  /\ pacing' = (IF hadErrors THEN PacingAfterIncrement
                             ELSE PacingAfterReset(consecutiveErrors))
  /\ UNCHANGED probe

\* variant: the duration metric is written by cycles without errors only
FinishDurationWhenClean ==
  /\ pc = "finish"
  /\ mu = "unlocked"
  /\ consecutiveErrors' =
       IF hadErrors THEN incrementErrors(consecutiveErrors)
                    ELSE resetErrors(consecutiveErrors)
  /\ metrics' =
       IF hadErrors THEN metrics
       ELSE [metrics EXCEPT
               !.CollectDuration = SetLabel(@, clusterName, now - startTime),
               !.LastSuccessfulCollectTime = SetLabel(@, clusterName, now)]
  /\ pc' = AfterCollect
  /\ UNCHANGED <<refreshInterval, lastDbProtocols, lastDbTypes, lastClusterName,
                 clusterName, hadErrors, startTime, now, inv, cycles, calc, pre,
                 failed, updated>>
  /\ UNCHANGED dbCallVars
  /\ UNCHANGED trackerVars
  /\ run' = CollectReturned
  /\ UNCHANGED <<mu, ctxDone, fetchLog>>
  /\ accesses' = (IF hadErrors THEN IncrementAccesses ELSE ResetAccesses)
  /\ pacing' = (IF hadErrors THEN PacingAfterIncrement
                             ELSE PacingAfterReset(consecutiveErrors))
  /\ UNCHANGED probe

\* variant: the counter rises once per failed fetch instead of once per cycle
FinishCountsEveryFailure ==
  /\ pc = "finish"
  /\ mu = "unlocked"
  /\ consecutiveErrors' =
       IF hadErrors THEN consecutiveErrors + Cardinality(failed)
                    ELSE resetErrors(consecutiveErrors)
  /\ metrics' =
       LET m1 == [metrics EXCEPT !.CollectDuration = SetLabel(@, clusterName, now - startTime)]
       IN IF hadErrors THEN m1
          ELSE [m1 EXCEPT !.LastSuccessfulCollectTime = SetLabel(@, clusterName, now)]
  /\ pc' = AfterCollect
  /\ UNCHANGED <<refreshInterval, lastDbProtocols, lastDbTypes, lastClusterName,
                 clusterName, hadErrors, startTime, now, inv, cycles, calc, pre,
                 failed, updated>>
  /\ UNCHANGED dbCallVars
  /\ UNCHANGED trackerVars
  /\ run' = CollectReturned
  /\ UNCHANGED <<mu, ctxDone, fetchLog>>
  /\ accesses' = (IF hadErrors THEN IncrementAccesses ELSE ResetAccesses)
  /\ pacing' = (IF hadErrors THEN PacingAfterIncrement
                             ELSE PacingAfterReset(consecutiveErrors))
  /\ UNCHANGED probe

\* :189-199  duration metric, then the consecutive-error counter and, after
\* a cycle without errors, the last-success timestamp
Finish ==
  /\ pc = "finish"
  /\ mu = "unlocked"
  /\ consecutiveErrors' =
       IF hadErrors THEN incrementErrors(consecutiveErrors)
                    ELSE resetErrors(consecutiveErrors)
  /\ metrics' =
       LET m1 == [metrics EXCEPT !.CollectDuration = SetLabel(@, clusterName, now - startTime)]
       IN IF hadErrors THEN m1
          ELSE [m1 EXCEPT !.LastSuccessfulCollectTime = SetLabel(@, clusterName, now)]
  /\ pc' = AfterCollect
  /\ UNCHANGED <<refreshInterval, lastDbProtocols, lastDbTypes, lastClusterName,
                 clusterName, hadErrors, startTime, now, inv, cycles, calc, pre,
                 failed, updated>>
  /\ UNCHANGED dbCallVars
  /\ UNCHANGED trackerVars
  /\ run' = CollectReturned
  /\ UNCHANGED <<mu, ctxDone, fetchLog>>
  /\ accesses' = (IF hadErrors THEN IncrementAccesses ELSE ResetAccesses)
  /\ pacing' = (IF hadErrors THEN PacingAfterIncrement
                             ELSE PacingAfterReset(consecutiveErrors))
  /\ UNCHANGED probe

\* ------------------------------------ updateDatabaseMetrics (:322-374)
\* The routine runs under c.mu from its first line to its return; its
\* loops are taken one at a time, in source order.
dbFrame == <<refreshInterval, consecutiveErrors, caller, clusterName, hadErrors,
             startTime, dbArgs, now, inv, cycles, calc, pre, failed, updated,
             prevArgs>>

\* variant: the routine starts with a blanket Reset() of both breakdowns
DbCountAfterReset ==
  /\ pc = "dbCount"
  /\ dbLocal' = [dbLocal EXCEPT
                   !.protocolCounts = protocolCounts(dbArgs.databases),
                   !.typeCounts = typeCounts(dbArgs.databases)]
  /\ metrics' = [metrics EXCEPT !.DatabasesByProtocolTotal = EmptyVec,
                                !.DatabasesByTypeTotal = EmptyVec]
  /\ pc' = "dbSetProtocols"
  /\ UNCHANGED <<lastDbProtocols, lastDbTypes, lastClusterName, deleted>>
  /\ UNCHANGED dbFrame
  /\ UNCHANGED trackerVars
  /\ UNCHANGED <<mu, fetchLog>>
  /\ UNCHANGED runVars
  /\ accesses' = {}
  /\ UNCHANGED <<pacing, probe>>

\* :326-341  count the records by normalised protocol and type
DbCount ==
  /\ pc = "dbCount"
  /\ dbLocal' = [dbLocal EXCEPT
                   !.protocolCounts = protocolCounts(dbArgs.databases),
                   !.typeCounts = typeCounts(dbArgs.databases)]
  /\ pc' = "dbSetProtocols"
  /\ UNCHANGED <<metrics, lastDbProtocols, lastDbTypes, lastClusterName, deleted>>
  /\ UNCHANGED dbFrame
  /\ UNCHANGED trackerVars
  /\ UNCHANGED <<mu, fetchLog>>
  /\ UNCHANGED runVars
  /\ accesses' = {}
  /\ UNCHANGED <<pacing, probe>>

\* :344-348  export one by-protocol series per current protocol
DbSetProtocols ==
  /\ pc = "dbSetProtocols"
  /\ dbLocal' = [dbLocal EXCEPT !.currentProtocols = DOMAIN dbLocal.protocolCounts]
  /\ metrics' = [metrics EXCEPT
                   !.DatabasesByProtocolTotal =
                      SetCounts(@, dbArgs.clusterName, dbLocal.protocolCounts,
                                DOMAIN dbLocal.protocolCounts)]
  /\ pc' = "dbDeleteProtocols"
  /\ UNCHANGED <<lastDbProtocols, lastDbTypes, lastClusterName, deleted>>
  /\ UNCHANGED dbFrame
  /\ UNCHANGED trackerVars
  /\ UNCHANGED <<mu, fetchLog>>
  /\ UNCHANGED runVars
  /\ accesses' = {}
  /\ UNCHANGED <<pacing, probe>>

\* :349-353  delete the series of the protocols that vanished
DbDeleteProtocols ==
  /\ pc = "dbDeleteProtocols"
  /\ LET targets == DeleteTargets(lastDbProtocols, dbLocal.currentProtocols)
     IN /\ metrics' = [metrics EXCEPT
                         !.DatabasesByProtocolTotal = DeleteLabels(@, targets)]
        /\ deleted' = deleted \cup {<<"protocol", t[1], t[2]>> : t \in targets}
  /\ pc' = "dbSetTypes"
  /\ UNCHANGED <<lastDbProtocols, lastDbTypes, lastClusterName, dbLocal>>
  /\ UNCHANGED dbFrame
  /\ UNCHANGED trackerVars
  /\ UNCHANGED <<mu, fetchLog>>
  /\ UNCHANGED runVars
  /\ accesses' = {<<"lastDbProtocols", "read", HeldMode>>, <<"lastClusterName", "read", HeldMode>>}
  /\ UNCHANGED <<pacing, probe>>

\* :356-360  export one by-type series per current type
DbSetTypes ==
  /\ pc = "dbSetTypes"
  /\ dbLocal' = [dbLocal EXCEPT !.currentTypes = DOMAIN dbLocal.typeCounts]
  /\ metrics' = [metrics EXCEPT
                   !.DatabasesByTypeTotal =
                      SetCounts(@, dbArgs.clusterName, dbLocal.typeCounts,
                                DOMAIN dbLocal.typeCounts)]
  /\ pc' = "dbDeleteTypes"
  /\ UNCHANGED <<lastDbProtocols, lastDbTypes, lastClusterName, deleted>>
  /\ UNCHANGED dbFrame
  /\ UNCHANGED trackerVars
  /\ UNCHANGED <<mu, fetchLog>>
  /\ UNCHANGED runVars
  /\ accesses' = {}
  /\ UNCHANGED <<pacing, probe>>

\* :361-365  delete the series of the types that vanished
DbDeleteTypes ==
  /\ pc = "dbDeleteTypes"
  /\ LET targets == DeleteTargets(lastDbTypes, dbLocal.currentTypes)
     IN /\ metrics' = [metrics EXCEPT
                         !.DatabasesByTypeTotal = DeleteLabels(@, targets)]
        /\ deleted' = deleted \cup {<<"type", t[1], t[2]>> : t \in targets}
  /\ pc' = "dbCommit"
  /\ UNCHANGED <<lastDbProtocols, lastDbTypes, lastClusterName, dbLocal>>
  /\ UNCHANGED dbFrame
  /\ UNCHANGED trackerVars
  /\ UNCHANGED <<mu, fetchLog>>
  /\ UNCHANGED runVars
  /\ accesses' = {<<"lastDbTypes", "read", HeldMode>>, <<"lastClusterName", "read", HeldMode>>}
  /\ UNCHANGED <<pacing, probe>>

\* variant: the new keys are merged into the tracked set instead of
\* replacing it
TrackedAccumulated(current) == current \cup lastDbProtocols \cup lastDbTypes

\* the tracked sets the routine stores (:367-368)
TrackedAfter(current) == current

\* :367-373  replace the tracked sets, remember the identity, set the total,
\* return to the caller
DbCommit ==
  /\ pc = "dbCommit"
  /\ lastDbProtocols' = TrackedAfter(dbLocal.currentProtocols)
  /\ lastDbTypes' = TrackedAfter(dbLocal.currentTypes)
  /\ lastClusterName' = dbArgs.clusterName
  /\ metrics' = [metrics EXCEPT
                   !.DatabasesTotal =
                      SetLabel(@, dbArgs.clusterName, Len(dbArgs.databases))]
  /\ pc' = IF caller = "collect" THEN "getApps" ELSE "idle"
  /\ UNCHANGED <<dbLocal, deleted>>
  /\ UNCHANGED dbFrame
  /\ UNCHANGED trackerVars
  /\ mu' = Unlock(mu)
  /\ UNCHANGED fetchLog
  /\ UNCHANGED runVars
  /\ accesses' = {<<"lastDbProtocols", "write", HeldMode>>, <<"lastDbTypes", "write", HeldMode>>,
                  <<"lastClusterName", "write", HeldMode>>}
  /\ UNCHANGED <<pacing, probe>>

\* TestCollector_UpdateDatabaseMetrics: the routine called directly on a
\* collector, outside a poll cycle

CallUpdateDatabaseMetrics ==
  /\ pc = "idle"
  /\ mu = "unlocked"
  /\ cycles < MaxCycles
  /\ cycles' = cycles + 1
  /\ \E id \in Identities, dbs \in DbSnapshots :
       dbArgs' = [clusterName |-> id, databases |-> dbs]
  /\ prevArgs' = dbArgs
  /\ caller' = "test"
  /\ dbLocal' = NoLocal
  /\ deleted' = {}
  /\ pre' = Snapshot
  /\ pc' = "dbCount"
  /\ UNCHANGED <<metrics, clusterName, hadErrors, startTime, now, inv, calc,
                 failed, updated>>
  /\ UNCHANGED collectorVars
  /\ UNCHANGED trackerVars
  /\ mu' = Lock(mu)
  /\ UNCHANGED fetchLog
  /\ UNCHANGED runVars
  /\ accesses' = {}
  /\ UNCHANGED <<pacing, probe>>

\* ------------------------------------------- backoff operations (:100-121)
backoffFrame == <<lastDbProtocols, lastDbTypes, lastClusterName, metrics, pc,
                  caller, clusterName, hadErrors, startTime, dbArgs, dbLocal, now,
                  inv, cycles, pre, failed, updated, deleted, prevArgs>>

\* TestCollector_ErrorTracking: c.incrementErrors()
IncrementErrors ==
  /\ mu = "unlocked"
  /\ consecutiveErrors < MaxErrors
  /\ consecutiveErrors' = incrementErrors(consecutiveErrors)
  /\ UNCHANGED <<refreshInterval, calc>>
  /\ UNCHANGED backoffFrame
  /\ UNCHANGED trackerVars
  /\ UNCHANGED <<mu, fetchLog>>
  /\ UNCHANGED runVars
  /\ accesses' = IncrementAccesses
  /\ pacing' = PacingAfterIncrement
  /\ UNCHANGED probe

\* TestCollector_ErrorTracking: c.resetErrors()
ResetErrors ==
  /\ mu = "unlocked"
  /\ consecutiveErrors' = resetErrors(consecutiveErrors)
  /\ UNCHANGED <<refreshInterval, calc>>
  /\ UNCHANGED backoffFrame
  /\ UNCHANGED trackerVars
  /\ UNCHANGED <<mu, fetchLog>>
  /\ UNCHANGED runVars
  /\ accesses' = ResetAccesses
  /\ pacing' = PacingAfterReset(consecutiveErrors)
  /\ UNCHANGED probe

\* calculateNextInterval with rand.Float64() = k / JitterSteps
CalculateNextInterval ==
  /\ mu = "unlocked"
  /\ \E k \in 0 .. JitterSteps - 1 :
       calc' = [done |-> TRUE, errors |-> consecutiveErrors,
                value |-> NextIntervalValue(consecutiveErrors, k)]
  /\ UNCHANGED <<refreshInterval, consecutiveErrors>>
  /\ UNCHANGED backoffFrame
  /\ UNCHANGED trackerVars
  /\ UNCHANGED <<mu, fetchLog>>
  /\ UNCHANGED runVars
  /\ accesses' = IntervalAccesses
  /\ pacing' = PacingAfterInterval
  /\ UNCHANGED probe

\* --------------------- direct calls of the inference helpers (:238-320)
\* Hostnames and sub-cluster names handed to the helpers: every string of
\* up to MaxNameLen characters, and the longer ones the tests use.
HostChars == {"h", "c", "."}
Hostnames ==
  SeqsUpTo(HostChars, MaxNameLen)
    \cup {<<"h", ".", "c", ".", "h">>, <<"h", ".">> \o Unknown}
NameChars == {"g", "a", "-"}
ProbeNames == SeqsUpTo(NameChars, MaxNameLen)

LabelKeys == {clusterLabels[i] : i \in 1 .. Len(clusterLabels)}

\* a value that names its key, so that the key a result came from shows
LabelValue(key) ==
  LET i == CHOOSE j \in 1 .. Len(clusterLabels) : clusterLabels[j] = key
  IN <<"p", <<"1", "2", "3", "4", "5">>[i]>>

\* node.Labels: each priority key absent, present and empty, or present
\* with a value; a label that is no priority key; a label whose value is
\* the literal "unknown"
LabelMaps ==
  {[k \in {x \in LabelKeys : c[x] # "absent"} |->
      IF c[k] = "empty" THEN <<>> ELSE LabelValue(k)] :
     c \in [LabelKeys -> {"absent", "empty", "value"}]}
    \cup {[k \in {"env"} |-> <<"p">>], [k \in {"cluster"} |-> Unknown]}

ProbeNodes == {[Hostname |-> h, Labels |-> l] : h \in Hostnames, l \in LabelMaps}

inferFrame == <<refreshInterval, lastDbProtocols, lastDbTypes, lastClusterName,
                consecutiveErrors, metrics, pc, caller, clusterName, hadErrors,
                startTime, dbArgs, dbLocal, now, inv, cycles, calc, pre, failed,
                updated, deleted, prevArgs, nodeTracker, nodeCall, mu, ctxDone,
                run, fetchLog, accesses, pacing>>

\* the helper calls the tests make, one per input
ProbeCalls ==
  {[fn |-> "extractKubeCluster", arg |-> node, result |-> <<>>, done |-> FALSE] :
     node \in ProbeNodes}
    \cup {[fn |-> "splitByDot", arg |-> s, result |-> <<>>, done |-> FALSE] :
            s \in Hostnames}
    \cup {[fn |-> "isWorkloadCluster", arg |-> name, result |-> <<>>, done |-> FALSE] :
            name \in ProbeNames}

\* TestExtractKubeCluster: extractKubeCluster(node)
CallExtractKubeCluster ==
  /\ probe.fn = "extractKubeCluster"
  /\ ~probe.done
  /\ probe' = [probe EXCEPT !.result = extractKubeCluster(probe.arg), !.done = TRUE]
  /\ UNCHANGED inferFrame

\* TestSplitByDot: splitByDot(s)
CallSplitByDot ==
  /\ probe.fn = "splitByDot"
  /\ ~probe.done
  /\ probe' = [probe EXCEPT !.result = splitByDot(probe.arg), !.done = TRUE]
  /\ UNCHANGED inferFrame

\* TestIsWorkloadCluster: isWorkloadCluster(name)
CallIsWorkloadCluster ==
  /\ probe.fn = "isWorkloadCluster"
  /\ ~probe.done
  /\ probe' = [probe EXCEPT !.result = isWorkloadCluster(probe.arg), !.done = TRUE]
  /\ UNCHANGED inferFrame

\* ------------------------- the inventory client (client.go:144-239)
\* What the Teleport API returns for a list call: one entry per server.
\* GetCluster / GetDatabase / GetApp of a server is nil (present FALSE) or
\* a resource with a name; Tag stands for the other fields that are copied
\* (labels, protocol and type, address and URI).
NilResource == [present |-> FALSE, Name |-> "", Tag |-> ""]
ServerResources ==
  {NilResource}
    \cup {[present |-> TRUE, Name |-> n, Tag |-> t] : n \in {"x", "y"}, t \in {"1", "2"}}
ServerLists == SeqsUpTo(ServerResources, MaxRecords)

\* variant: the first server read for a name wins
resourceMapFirstWins(servers) ==
  LET names == {servers[i].Name : i \in {j \in 1 .. Len(servers) : servers[j].present}}
      first(n) == CHOOSE i \in 1 .. Len(servers) :
                    /\ servers[i].present
                    /\ servers[i].Name = n
                    /\ \A j \in 1 .. i - 1 : ~(servers[j].present /\ servers[j].Name = n)
  IN [n \in names |-> [Name |-> n, Tag |-> servers[first(n)].Tag]]

\* :155-164, :186-197, :219-230  the map filled by the loop over the
\* servers, in order: a nil resource is skipped, a name met again is
\* overwritten
RECURSIVE resourceMapLoop(_, _, _)
resourceMapLoop(servers, i, m) ==
  IF i > Len(servers) THEN m
  ELSE IF servers[i].present
         THEN resourceMapLoop(servers, i + 1,
                [n \in (DOMAIN m) \cup {servers[i].Name} |->
                   IF n = servers[i].Name
                     THEN [Name |-> servers[i].Name, Tag |-> servers[i].Tag]
                     ELSE m[n]])
         ELSE resourceMapLoop(servers, i + 1, m)

resourceMap(servers) == resourceMapLoop(servers, 1, [n \in {} |-> NilResource])

\* :166-169, :199-202, :232-235  the slices a range over the map can
\* build: its values in any order
mapValuesInAnyOrder(m) ==
  {[i \in 1 .. Cardinality(DOMAIN m) |-> m[f[i]]] :
     f \in {g \in [1 .. Cardinality(DOMAIN m) -> DOMAIN m] :
              \A a, b \in 1 .. Cardinality(DOMAIN m) : g[a] = g[b] => a = b}}

\* the list calls the collector makes, with what the API answers: an
\* error, or a list of servers
ClientCalls ==
  {[fn |-> f, arg |-> [apiError |-> e, servers |-> l], result |-> <<>>, done |-> FALSE] :
     f \in {"GetKubeClusters", "GetDatabases", "GetApps"},
     e \in {FALSE},
     l \in ServerLists}
    \cup {[fn |-> f, arg |-> [apiError |-> TRUE, servers |-> <<>>], result |-> <<>>,
           done |-> FALSE] : f \in {"GetKubeClusters", "GetDatabases", "GetApps"}}

\* what a list call returns: (nil, err) on an API error, else the
\* deduplicated records and no error
listResults(arg) ==
  IF arg.apiError
    THEN {[records |-> <<>>, err |-> TRUE]}
    ELSE {[records |-> r, err |-> FALSE] : r \in mapValuesInAnyOrder(resourceMap(arg.servers))}

\* Client.GetKubeClusters (:145-173)
CallGetKubeClusters ==
  /\ probe.fn = "GetKubeClusters"
  /\ ~probe.done
  /\ \E r \in listResults(probe.arg) :
       probe' = [probe EXCEPT !.result = r, !.done = TRUE]
  /\ UNCHANGED inferFrame

\* Client.GetDatabases (:176-206)
CallGetDatabases ==
  /\ probe.fn = "GetDatabases"
  /\ ~probe.done
  /\ \E r \in listResults(probe.arg) :
       probe' = [probe EXCEPT !.result = r, !.done = TRUE]
  /\ UNCHANGED inferFrame

\* Client.GetApps (:209-239)
CallGetApps ==
  /\ probe.fn = "GetApps"
  /\ ~probe.done
  /\ \E r \in listResults(probe.arg) :
       probe' = [probe EXCEPT !.result = r, !.done = TRUE]
  /\ UNCHANGED inferFrame

\* ---- composite keys of the pair-grouping data-store update
\* ---- (collector_test.go:476-517, :544-556)
\* Protocol and Type of a teleport.DatabaseInfo, as the API delivers them:
\* any string, the key delimiter included
KeyChars == {"p", "|"}
KeyFields == SeqsUpTo(KeyChars, MaxNameLen)

\* :483-490  an empty protocol or type becomes "unknown"
NormalizeField(f) == IF f = <<>> THEN Unknown ELSE f

\* :491  key := protocol + "|" + dbType
encodeKey(protocol, dbType) == protocol \o <<"|">> \o dbType

\* :545-556
RECURSIVE splitKeyLoop(_, _, _, _)
splitKeyLoop(key, i, start, parts) ==
  IF i > Len(key)
    THEN Append(parts, SubSeq(key, start, Len(key)))
    ELSE IF key[i] = "|"
           THEN splitKeyLoop(key, i + 1, i + 1, Append(parts, SubSeq(key, start, i - 1)))
           ELSE splitKeyLoop(key, i + 1, start, parts)

splitKey(key) == splitKeyLoop(key, 1, 1, <<>>)

\* the records whose key is built and decoded, one call per record
KeyCalls ==
  {[fn |-> "splitKey", arg |-> [Protocol |-> a, Type |-> b], result |-> <<>>,
    done |-> FALSE] : a \in KeyFields, b \in KeyFields}

\* :482-500  the key of one record is built, counted and decoded for the
\* labels of its series; :504-509 decode it the same way on delete
CallSplitKey ==
  /\ probe.fn = "splitKey"
  /\ ~probe.done
  /\ LET key == encodeKey(NormalizeField(probe.arg.Protocol),
                          NormalizeField(probe.arg.Type))
     IN probe' = [probe EXCEPT !.result = [key |-> key, parts |-> splitKey(key)],
                               !.done = TRUE]
  /\ UNCHANGED inferFrame

\* ------------------ direct calls of the node and kube updates (:216-310)
\* node records handed to updateNodeMetrics
UpdateNodes ==
  {NodeLabelled, NodeDotted, NodeBare,
   [Hostname |-> <<>>, Labels |-> [k \in {"cluster"} |-> <<>>]],
   [Hostname |-> <<"h">>, Labels |-> [k \in {"cluster"} |-> Unknown]]}
UpdateNodeSnapshots == SeqsUpTo(UpdateNodes, MaxRecords)

\* sub-cluster records handed to updateKubeClusterMetrics
UpdateKubeClusters == {KubeManagement, KubeWorkload, [Name |-> <<>>]}
UpdateKubeSnapshots == SeqsUpTo(UpdateKubeClusters, MaxRecords)

updateFrame == <<refreshInterval, lastDbProtocols, lastDbTypes, lastClusterName,
                 consecutiveErrors, pc, caller, clusterName, hadErrors,
                 startTime, dbArgs, dbLocal, now, inv, cycles, calc, pre, failed,
                 updated, deleted, prevArgs, nodeTracker, nodeCall, mu, ctxDone,
                 run, fetchLog, pacing>>

\* TestCollector_UpdateNodeMetrics: c.updateNodeMetrics(clusterName, nodes)
CallUpdateNodeMetrics ==
  /\ \E cn \in Identities, nodes \in UpdateNodeSnapshots :
       /\ metrics' = updateNodeMetrics(metrics, cn, nodes)
       /\ probe' = [fn |-> "updateNodeMetrics", arg |-> <<cn, nodes>>,
                    result |-> <<>>, done |-> TRUE]
  /\ accesses' = {}
  /\ UNCHANGED updateFrame

\* TestCollector_UpdateKubeClusterMetrics:
\* c.updateKubeClusterMetrics(clusterName, clusters)
CallUpdateKubeClusterMetrics ==
  /\ \E cn \in Identities, clusters \in UpdateKubeSnapshots :
       /\ metrics' = updateKubeClusterMetrics(metrics, cn, clusters)
       /\ probe' = [fn |-> "updateKubeClusterMetrics", arg |-> <<cn, clusters>>,
                    result |-> <<>>, done |-> TRUE]
  /\ accesses' = {}
  /\ UNCHANGED updateFrame

\* ---------- node update of the sub-kind revision (collector_test.go:417-449)
\* teleport.NodeInfo.SubKind of the records handed to it
SubKindNodes == {[SubKind |-> "teleport"], [SubKind |-> "openssh"], [SubKind |-> ""]}
NodeSnapshots == SeqsUpTo(SubKindNodes, MaxRecords)

\* :424-427  an empty sub-kind is counted as "default"
NormalizeSubKind(subkind) == IF subkind = "" THEN "default" ELSE subkind

\* variant: nodes with an empty sub-kind are left out of the breakdown
subkindCountsSkipEmpty(nodes) ==
  LET keys == {nodes[i].SubKind : i \in 1 .. Len(nodes)} \ {""}
  IN [k \in keys |-> Cardinality({i \in 1 .. Len(nodes) : nodes[i].SubKind = k})]

\* :422-429
subkindCounts(nodes) ==
  LET keys == {NormalizeSubKind(nodes[i].SubKind) : i \in 1 .. Len(nodes)}
  IN [k \in keys |->
        Cardinality({i \in 1 .. Len(nodes) : NormalizeSubKind(nodes[i].SubKind) = k})]

\* :439-443  the DeleteLabelValues calls of the cleanup loop
staleNodeTargets(c, nodes) ==
  {<<c.lastClusterName, k>> : k \in c.lastNodes \ DOMAIN subkindCounts(nodes)}

\* :417-449  the whole routine, which runs under c.mu
updateNodeMetricsBySubKind(c, cn, nodes) ==
  LET counts == subkindCounts(nodes)
      exported == SetCounts(c.NodeInfo, cn, counts, DOMAIN counts)
  IN [c EXCEPT
        !.lastNodes = DOMAIN counts,
        !.lastClusterName = cn,
        !.NodeInfo = DeleteLabels(exported, staleNodeTargets(c, nodes)),
        !.NodesTotal = SetLabel(c.NodesTotal, cn, Len(nodes))]

\* TestCollector_UpdateNodeMetrics_RemovesStaleNodes: the routine called
\* directly
CallUpdateNodeMetricsBySubKind ==
  /\ pc = "idle"
  /\ cycles < MaxCycles
  /\ cycles' = cycles + 1
  /\ \E id \in Identities, nodes \in NodeSnapshots :
       /\ nodeTracker' = updateNodeMetricsBySubKind(nodeTracker, id, nodes)
       /\ nodeCall' = [kind |-> "nodes", clusterName |-> id, nodes |-> nodes,
                       pre |-> nodeTracker,
                       deleted |-> staleNodeTargets(nodeTracker, nodes)]
  /\ UNCHANGED <<metrics, pc, clusterName, hadErrors, startTime, now, inv, calc,
                 pre, failed, updated>>
  /\ UNCHANGED collectorVars
  /\ UNCHANGED dbCallVars
  /\ UNCHANGED <<mu, fetchLog>>
  /\ UNCHANGED runVars
  /\ accesses' = {}
  /\ UNCHANGED <<pacing, probe>>

\* -- presence series of the sub-kind revision (collector_test.go:451-542)
\* teleport.KubeClusterInfo and teleport.AppInfo records handed to them
TrackedKubeClusters == {KubeManagement, KubeWorkload}
TrackedKubeSnapshots == SeqsUpTo(TrackedKubeClusters, MaxRecords)
TrackedApps == {[Name |-> "grafana"], [Name |-> "prometheus"]}
TrackedAppSnapshots == SeqsUpTo(TrackedApps, MaxRecords)

\* :456-461, :524-529  the names of the snapshot, each set to 1
presentNames(records) == {records[i].Name : i \in 1 .. Len(records)}
presenceCounts(records) == [n \in presentNames(records) |-> 1]

\* :464-468, :532-536  the DeleteLabelValues calls of the cleanup loop
stalePresenceTargets(lastClusterNameNow, lastNames, records) ==
  {<<lastClusterNameNow, n>> : n \in lastNames \ presentNames(records)}

\* :451-474  the whole routine, which runs under c.mu
updateKubeClusterMetricsTracked(c, cn, clusters) ==
  LET exported == SetCounts(c.KubeClusterInfo, cn, presenceCounts(clusters),
                            presentNames(clusters))
      stale == stalePresenceTargets(c.lastClusterName, c.lastKubeClusters, clusters)
  IN [c EXCEPT
        !.lastKubeClusters = presentNames(clusters),
        !.lastClusterName = cn,
        !.KubeClusterInfo = DeleteLabels(exported, stale),
        !.KubeClustersTotal = SetLabel(c.KubeClustersTotal, cn, Len(clusters))]

\* :519-542  the whole routine, which runs under c.mu
updateAppMetricsTracked(c, cn, apps) ==
  LET exported == SetCounts(c.AppInfo, cn, presenceCounts(apps), presentNames(apps))
      stale == stalePresenceTargets(c.lastClusterName, c.lastApps, apps)
  IN [c EXCEPT
        !.lastApps = presentNames(apps),
        !.lastClusterName = cn,
        !.AppInfo = DeleteLabels(exported, stale),
        !.AppsTotal = SetLabel(c.AppsTotal, cn, Len(apps))]

trackedFrame == <<metrics, pc, clusterName, hadErrors, startTime, now, inv, calc,
                  pre, failed, updated>>

\* TestCollector_UpdateKubeClusterMetrics (tracked-set revision): the
\* routine called directly
CallUpdateKubeClusterMetricsTracked ==
  /\ pc = "idle"
  /\ cycles < MaxCycles
  /\ cycles' = cycles + 1
  /\ \E id \in Identities, clusters \in TrackedKubeSnapshots :
       /\ nodeTracker' = updateKubeClusterMetricsTracked(nodeTracker, id, clusters)
       /\ nodeCall' = [kind |-> "kube", clusterName |-> id, nodes |-> clusters,
                       pre |-> nodeTracker,
                       deleted |-> stalePresenceTargets(nodeTracker.lastClusterName,
                                     nodeTracker.lastKubeClusters, clusters)]
  /\ UNCHANGED trackedFrame
  /\ UNCHANGED collectorVars
  /\ UNCHANGED dbCallVars
  /\ UNCHANGED <<mu, fetchLog>>
  /\ UNCHANGED runVars
  /\ accesses' = {}
  /\ UNCHANGED <<pacing, probe>>

\* TestCollector_UpdateAppMetrics (tracked-set revision): the routine
\* called directly
CallUpdateAppMetricsTracked ==
  /\ pc = "idle"
  /\ cycles < MaxCycles
  /\ cycles' = cycles + 1
  /\ \E id \in Identities, apps \in TrackedAppSnapshots :
       /\ nodeTracker' = updateAppMetricsTracked(nodeTracker, id, apps)
       /\ nodeCall' = [kind |-> "apps", clusterName |-> id, nodes |-> apps,
                       pre |-> nodeTracker,
                       deleted |-> stalePresenceTargets(nodeTracker.lastClusterName,
                                     nodeTracker.lastApps, apps)]
  /\ UNCHANGED trackedFrame
  /\ UNCHANGED collectorVars
  /\ UNCHANGED dbCallVars
  /\ UNCHANGED <<mu, fetchLog>>
  /\ UNCHANGED runVars
  /\ accesses' = {}
  /\ UNCHANGED <<pacing, probe>>

\* ------------------------------------------------------- Run (:72-98)
\* What a select over ctx.Done() and time.After(duration) does when it is
\* reached: it takes a ready case, choosing among several ready ones at
\* random, and blocks at waitPc when none is ready. The timer is ready at
\* once only for a duration that is not positive.
SelectPoll(duration, waitPc) ==
  IF ctxDone /\ duration <= 0 THEN {"returned", "idle"}
  ELSE IF ctxDone THEN {"returned"}
  ELSE IF duration <= 0 THEN {"idle"}
  ELSE {waitPc}

runFrame == <<refreshInterval, lastDbProtocols, lastDbTypes, lastClusterName,
              consecutiveErrors, metrics, caller, clusterName, hadErrors,
              startTime, dbArgs, dbLocal, inv, cycles, pre, failed, updated,
              deleted, prevArgs, nodeTracker, nodeCall, mu, fetchLog>>

\* main.go:143-146  the shutdown signal arrives and main calls cancel()
Cancel ==
  /\ run.active
  /\ ~ctxDone
  /\ pc # "panicked"
  /\ ctxDone' = TRUE
  /\ run' = [run EXCEPT !.cancelledAt = pc, !.cyclesAtCancel = cycles]
  /\ UNCHANGED <<pc, now, calc>>
  /\ UNCHANGED runFrame
  /\ accesses' = {}
  /\ UNCHANGED <<pacing, probe>>

\* :76  rand.Int63n panics when its argument, refreshInterval / 4, is not
\* positive
RunStartPanics ==
  /\ pc = "runStart"
  /\ refreshInterval \div 4 <= 0
  /\ pc' = "panicked"
  /\ UNCHANGED <<now, calc>>
  /\ UNCHANGED runVars
  /\ UNCHANGED runFrame
  /\ accesses' = {}
  /\ UNCHANGED <<pacing, probe>>

\* :73-79  draw the startup delay and reach the first select
RunStart ==
  /\ pc = "runStart"
  /\ refreshInterval \div 4 > 0
  /\ \E d \in 0 .. (refreshInterval \div 4) - 1 :
       /\ run' = [run EXCEPT !.initialJitter = d]
       /\ pc' \in SelectPoll(d, "startupWait")
  /\ UNCHANGED <<now, calc, ctxDone>>
  /\ UNCHANGED runFrame
  /\ accesses' = {}
  /\ UNCHANGED <<pacing, probe>>

\* :80-81  blocked in the first select, woken by ctx.Done()
StartupCancelled ==
  /\ pc = "startupWait"
  /\ ctxDone
  /\ pc' = "returned"
  /\ UNCHANGED <<now, calc>>
  /\ UNCHANGED runVars
  /\ UNCHANGED runFrame
  /\ accesses' = {}
  /\ UNCHANGED <<pacing, probe>>

\* variant: the timer case is taken although ctx.Done() has already woken
\* the select
StartupTimerFiresAnyway ==
  /\ pc = "startupWait"
  /\ now' = now + run.initialJitter
  /\ pc' = "idle"
  /\ UNCHANGED calc
  /\ UNCHANGED runVars
  /\ UNCHANGED runFrame
  /\ accesses' = {}
  /\ UNCHANGED <<pacing, probe>>

\* :82-83  blocked in the first select, woken by the timer after
\* initialJitter: collect is called
StartupTimerFires ==
  /\ pc = "startupWait"
  /\ ~ctxDone
  /\ now' = now + run.initialJitter
  /\ pc' = "idle"
  /\ UNCHANGED calc
  /\ UNCHANGED runVars
  /\ UNCHANGED runFrame
  /\ accesses' = {}
  /\ UNCHANGED <<pacing, probe>>

\* :88-90  calculateNextInterval (which reads consecutiveErrors under
\* RLock, :102-104), then reach the loop's select
RunNextInterval ==
  /\ pc = "calc"
  /\ mu = "unlocked"
  /\ \E k \in 0 .. JitterSteps - 1 :
       LET interval == NextIntervalValue(consecutiveErrors, k)
       IN /\ run' = [run EXCEPT !.interval = interval, !.calcs = @ + 1]
          /\ calc' = [done |-> TRUE, errors |-> consecutiveErrors, value |-> interval]
          /\ pc' \in SelectPoll(interval, "loopWait")
  /\ UNCHANGED <<now, ctxDone>>
  /\ UNCHANGED runFrame
  /\ accesses' = IntervalAccesses
  /\ pacing' = PacingAfterInterval
  /\ UNCHANGED probe

\* variant: woken by ctx.Done(), the loop calls collect once more
LoopCancelledCollects ==
  /\ pc = "loopWait"
  /\ ctxDone
  /\ pc' = "idle"
  /\ UNCHANGED <<now, calc>>
  /\ UNCHANGED runVars
  /\ UNCHANGED runFrame
  /\ accesses' = {}
  /\ UNCHANGED <<pacing, probe>>

\* :91-93  blocked in the loop's select, woken by ctx.Done()
LoopCancelled ==
  /\ pc = "loopWait"
  /\ ctxDone
  /\ pc' = "returned"
  /\ UNCHANGED <<now, calc>>
  /\ UNCHANGED runVars
  /\ UNCHANGED runFrame
  /\ accesses' = {}
  /\ UNCHANGED <<pacing, probe>>

\* variant: the timer case is taken although ctx.Done() has already woken
\* the select
LoopTimerFiresAnyway ==
  /\ pc = "loopWait"
  /\ now' = now + run.interval
  /\ pc' = "idle"
  /\ UNCHANGED calc
  /\ UNCHANGED runVars
  /\ UNCHANGED runFrame
  /\ accesses' = {}
  /\ UNCHANGED <<pacing, probe>>

\* :94-95  blocked in the loop's select, woken by the timer after interval:
\* collect is called
LoopTimerFires ==
  /\ pc = "loopWait"
  /\ ~ctxDone
  /\ now' = now + run.interval
  /\ pc' = "idle"
  /\ UNCHANGED calc
  /\ UNCHANGED runVars
  /\ UNCHANGED runFrame
  /\ accesses' = {}
  /\ UNCHANGED <<pacing, probe>>

\* ----------------------------------------------------------- specifications
\* The poll cycle, step by step.
Next ==
  \/ GetClusterNameFails
  \/ GetClusterNameOk
  \/ GetNodesFails
  \/ GetNodesOk
  \/ GetKubeClustersFails
  \/ GetKubeClustersOk
  \/ GetDatabasesFails
  \/ GetDatabasesOk
  \/ DbCount
  \/ DbSetProtocols
  \/ DbDeleteProtocols
  \/ DbSetTypes
  \/ DbDeleteTypes
  \/ DbCommit
  \/ GetAppsFails
  \/ GetAppsOk
  \/ Finish

Spec == Init /\ [][Next]_vars

\* updateDatabaseMetrics called directly, as the unit tests do.
NextDb ==
  \/ CallUpdateDatabaseMetrics
  \/ DbCount
  \/ DbSetProtocols
  \/ DbDeleteProtocols
  \/ DbSetTypes
  \/ DbDeleteTypes
  \/ DbCommit

SpecDb == Init /\ [][NextDb]_vars

\* The sub-kind revision's node update called directly.
NextTracked ==
  \/ CallUpdateNodeMetricsBySubKind
  \/ CallUpdateKubeClusterMetricsTracked
  \/ CallUpdateAppMetricsTracked

SpecTracked == Init /\ [][NextTracked]_vars

\* Run as main starts it (main.go:100-104), with the shutdown signal.
InitRun ==
  /\ \E interval \in RunIntervals : refreshInterval = interval
  /\ lastDbProtocols = {}
  /\ lastDbTypes = {}
  /\ lastClusterName = ""
  /\ consecutiveErrors = 0
  /\ metrics = InitMetrics
  /\ pc = "runStart"
  /\ caller = "none"
  /\ clusterName = ""
  /\ hadErrors = FALSE
  /\ startTime = 0
  /\ dbArgs = NoArgs
  /\ dbLocal = NoLocal
  /\ now = 0
  /\ inv = "i1"
  /\ cycles = 0
  /\ calc = NoCalc
  /\ pre = [metrics |-> InitMetrics, lastDbProtocols |-> {}, lastDbTypes |-> {},
            lastClusterName |-> "", consecutiveErrors |-> 0]
  /\ failed = {}
  /\ updated = {}
  /\ deleted = {}
  /\ prevArgs = NoArgs
  /\ nodeTracker = NewNodeTracker
  /\ nodeCall = NoNodeCall
  /\ mu = "unlocked"
  /\ ctxDone = FALSE
  /\ run = [NoRun EXCEPT !.active = TRUE]
  /\ fetchLog = <<>>
  /\ accesses = {}
  /\ pacing = NoPacing
  /\ probe = NoProbe

NextRun ==
  \/ Cancel
  \/ RunStartPanics
  \/ RunStart
  \/ StartupCancelled
  \/ StartupTimerFires
  \/ RunNextInterval
  \/ LoopCancelled
  \/ LoopTimerFires
  \/ GetClusterNameFails
  \/ GetClusterNameOk
  \/ GetNodesFails
  \/ GetNodesOk
  \/ GetKubeClustersFails
  \/ GetKubeClustersOk
  \/ GetDatabasesFails
  \/ GetDatabasesOk
  \/ DbCount
  \/ DbSetProtocols
  \/ DbDeleteProtocols
  \/ DbSetTypes
  \/ DbDeleteTypes
  \/ DbCommit
  \/ GetAppsFails
  \/ GetAppsOk
  \/ Finish

SpecRun == InitRun /\ [][NextRun]_vars

\* Every step of the collector goroutine: all of NextRun but the shutdown
\* signal.
RunProgress ==
  \/ RunStartPanics
  \/ RunStart
  \/ StartupCancelled
  \/ StartupTimerFires
  \/ RunNextInterval
  \/ LoopCancelled
  \/ LoopTimerFires
  \/ GetClusterNameFails
  \/ GetClusterNameOk
  \/ GetNodesFails
  \/ GetNodesOk
  \/ GetKubeClustersFails
  \/ GetKubeClustersOk
  \/ GetDatabasesFails
  \/ GetDatabasesOk
  \/ DbCount
  \/ DbSetProtocols
  \/ DbDeleteProtocols
  \/ DbSetTypes
  \/ DbDeleteTypes
  \/ DbCommit
  \/ GetAppsFails
  \/ GetAppsOk
  \/ Finish

\* Run with a goroutine that keeps running: every fetch call returns and
\* every timer fires. Nothing obliges the shutdown signal to arrive.
SpecRunLive == InitRun /\ [][NextRun]_vars /\ WF_vars(RunProgress)

\* The inference helpers, each called once on every input.
InitInfer == \E p \in ProbeCalls : InitProbing(60, p)

NextInfer ==
  \/ CallExtractKubeCluster
  \/ CallSplitByDot
  \/ CallIsWorkloadCluster

SpecInfer == InitInfer /\ [][NextInfer]_vars

\* The inventory client's list calls, each made once on every API answer.
InitClient == \E p \in ClientCalls : InitProbing(60, p)

NextClient ==
  \/ CallGetKubeClusters
  \/ CallGetDatabases
  \/ CallGetApps

SpecClient == InitClient /\ [][NextClient]_vars

\* The composite key of the pair-grouping update, built and decoded once
\* for every record.
InitKey == \E p \in KeyCalls : InitProbing(60, p)

NextKey == CallSplitKey

SpecKey == InitKey /\ [][NextKey]_vars

\* updateNodeMetrics, called directly any number of times.
NextNodeUpdates == CallUpdateNodeMetrics

SpecNodeUpdates == Init /\ [][NextNodeUpdates]_vars

\* updateKubeClusterMetrics, called directly any number of times.
NextKubeUpdates == CallUpdateKubeClusterMetrics

SpecKubeUpdates == Init /\ [][NextKubeUpdates]_vars

\* The error counter and calculateNextInterval, for every configured interval.
InitBackoff == \E interval \in RefreshIntervals : InitWith(interval)

NextBackoff ==
  \/ IncrementErrors
  \/ ResetErrors
  \/ CalculateNextInterval

SpecBackoff == InitBackoff /\ [][NextBackoff]_vars

\* =================================================================== claims
Kinds == {"nodes", "kube", "databases", "apps"}

\* a poll cycle has run to its end (specification Spec)
CycleDone == pc = "idle" /\ cycles > 0 /\ caller # "test"

\* updateDatabaseMetrics has returned in the running cycle / call
DbUpdateDone ==
  \/ caller = "test" /\ pc = "idle"
  \/ caller = "collect" /\ "databases" \in updated /\ pc \in {"getApps", "finish", "idle"}

\* the exported series and the tracked key sets that belong to one kind
KindState(kind, st) ==
  CASE kind = "nodes" ->
         <<st.metrics.NodesTotal, st.metrics.NodesIdentifiedTotal,
           st.metrics.NodesUnidentifiedTotal>>
    [] kind = "kube" ->
         <<st.metrics.KubeClustersTotal, st.metrics.KubeManagementClustersTotal,
           st.metrics.KubeWorkloadClustersTotal>>
    [] kind = "databases" ->
         <<st.metrics.DatabasesTotal, st.metrics.DatabasesByProtocolTotal,
           st.metrics.DatabasesByTypeTotal, st.lastDbProtocols, st.lastDbTypes>>
    [] OTHER -> <<st.metrics.AppsTotal>>

\* the keys derivable from a data-store snapshot, spelled out independently
\* of the model's normalisation operator
SnapshotProtocols(dbs) ==
  {IF dbs[i].Protocol = "" THEN "unknown" ELSE dbs[i].Protocol : i \in 1 .. Len(dbs)}
SnapshotTypes(dbs) ==
  {IF dbs[i].Type = "" THEN "unknown" ELSE dbs[i].Type : i \in 1 .. Len(dbs)}

\* the kind's total gauge under the cycle's identity shows the fresh snapshot
FreshTotal(kind) ==
  CASE kind = "nodes" ->
         /\ clusterName \in DOMAIN metrics.NodesTotal
         /\ metrics.NodesTotal[clusterName] = Len(Inventory(inv).nodes)
    [] kind = "kube" ->
         /\ clusterName \in DOMAIN metrics.KubeClustersTotal
         /\ metrics.KubeClustersTotal[clusterName] = Len(Inventory(inv).kube)
    [] kind = "databases" ->
         /\ clusterName \in DOMAIN metrics.DatabasesTotal
         /\ metrics.DatabasesTotal[clusterName] = Len(Inventory(inv).dbs)
         /\ lastDbProtocols = SnapshotProtocols(Inventory(inv).dbs)
         /\ lastDbTypes = SnapshotTypes(Inventory(inv).dbs)
    [] OTHER ->
         /\ clusterName \in DOMAIN metrics.AppsTotal
         /\ metrics.AppsTotal[clusterName] = Len(Inventory(inv).apps)

\* C1: in a cycle whose identity fetch succeeded, a kind whose fetch failed
\* is not updated and its series and tracked key sets are what they were
\* before the cycle (at every later point of the cycle); at the end of the
\* cycle every kind whose fetch succeeded has been updated from the fresh
\* snapshot.
C1_FailedKindKeptOthersUpdated ==
  ("identity" \notin failed) =>
    /\ \A k \in Kinds \cap failed :
         /\ k \notin updated
         /\ KindState(k, Snapshot) = KindState(k, pre)
    /\ CycleDone =>
         \A k \in Kinds \ failed : k \in updated /\ FreshTotal(k)

\* C1 witness: a finished cycle in which the node fetch failed with node
\* series already exported, while the application fetch succeeded and
\* changed the application total.
C1_Witness ==
  /\ CycleDone
  /\ failed = {"nodes"}
  /\ pre.metrics.NodesTotal # EmptyVec
  /\ metrics.AppsTotal # pre.metrics.AppsTotal

\* C2: when the identity fetch fails, no kind is fetched or updated; all
\* inventory series, the tracked key sets, the duration metric, the
\* last-success timestamp (and the last-known identity) are unchanged; only
\* the connectivity gauge, the error-count metric and the consecutive-error
\* counter change.
C2_IdentityFailureFrame ==
  (CycleDone /\ "identity" \in failed) =>
    /\ failed = {"identity"}
    /\ updated = {}
    /\ now = startTime + 1
    /\ [metrics EXCEPT !.TeleportUp = pre.metrics.TeleportUp,
                       !.CollectErrorsTotal = pre.metrics.CollectErrorsTotal]
         = pre.metrics
    /\ lastDbProtocols = pre.lastDbProtocols
    /\ lastDbTypes = pre.lastDbTypes
    /\ lastClusterName = pre.lastClusterName
    /\ metrics.TeleportUp = 0
    /\ metrics.CollectErrorsTotal # pre.metrics.CollectErrorsTotal
    /\ consecutiveErrors # pre.consecutiveErrors

\* C2 witness: an identity failure in a cycle that follows a fully
\* successful one, so that series, tracked sets and the timestamp exist.
C2_Witness ==
  /\ CycleDone
  /\ "identity" \in failed
  /\ pre.metrics.DatabasesByProtocolTotal # EmptyVec
  /\ pre.lastDbProtocols # {}
  /\ pre.metrics.LastSuccessfulCollectTime # EmptyVec
  /\ pre.metrics.TeleportUp = 1

\* C10: after every poll cycle the consecutive-error counter is 0 exactly
\* when nothing failed in the cycle, and otherwise its previous value plus 1
\* however many fetches failed; it starts at 0 and is never negative.
C10_ConsecutiveErrors ==
  /\ consecutiveErrors >= 0
  /\ cycles = 0 => consecutiveErrors = 0
  /\ CycleDone =>
       /\ (consecutiveErrors = 0) <=> (failed = {})
       /\ failed # {} => consecutiveErrors = pre.consecutiveErrors + 1

\* C10 witness: a cycle with two failed fetches after a cycle that had
\* already failed: the counter went from 1 to 2.
C10_Witness ==
  /\ CycleDone
  /\ Cardinality(failed) >= 2
  /\ pre.consecutiveErrors = 1
  /\ consecutiveErrors = 2

\* C10 second case: a clean cycle after a failed one brings the counter to 0.
C10_WitnessReset ==
  CycleDone /\ failed = {} /\ pre.consecutiveErrors = 1 /\ consecutiveErrors = 0

\* the nominal interval the claims state for n consecutive errors, n <= 3
NominalInterval(n) ==
  CASE n = 0 -> refreshInterval
    [] n = 1 -> 2 * refreshInterval
    [] n = 2 -> 4 * refreshInterval
    [] OTHER -> 8 * refreshInterval

WithinTenPercent(value, nominal) ==
  10 * value >= 9 * nominal /\ 10 * value <= 11 * nominal

\* C8 (as claimed): for every consecutive-error count n >= 3 the interval
\* calculateNextInterval returns lies within +/-10% of 8 x base.
C8_CappedAtEight ==
  (calc.done /\ calc.errors >= 3) =>
    WithinTenPercent(calc.value, 8 * refreshInterval)

\* C9: for error counts 0..3 calculateNextInterval returns a strictly
\* positive duration within +/-10% of base, 2 x base, 4 x base, 8 x base.
C9_IntervalWithinJitter ==
  (calc.done /\ calc.errors <= 3) =>
    /\ calc.value > 0
    /\ WithinTenPercent(calc.value, NominalInterval(calc.errors))

\* C9 witness: three consecutive errors, and a jitter that pulled the
\* interval below 8 x base.
C9_Witness ==
  /\ calc.done
  /\ calc.errors = 3
  /\ calc.value < 8 * refreshInterval
  /\ calc.value > 0

\* the label tuples a tracked key set stands for under an identity
SeriesOf(identity, keys) == {<<identity, k>> : k \in keys}

\* C3 (as claimed): right after each successful data-store update, the
\* exported breakdown series are exactly the tuples formed from the current
\* identity and the tracked key sets, also when the identity differs from
\* one cycle to the next.
C3_SeriesMatchTracked ==
  DbUpdateDone =>
    /\ DOMAIN metrics.DatabasesByProtocolTotal = SeriesOf(lastClusterName, lastDbProtocols)
    /\ DOMAIN metrics.DatabasesByTypeTotal = SeriesOf(lastClusterName, lastDbTypes)

\* C4: after updateDatabaseMetrics(identity, snapshot) the tracked key sets
\* are exactly the normalised protocol tags and the normalised type tags of
\* the snapshot, whatever they held before.
C4_TrackedEqualsSnapshotKeys ==
  DbUpdateDone =>
    /\ lastDbProtocols = SnapshotProtocols(dbArgs.databases)
    /\ lastDbTypes = SnapshotTypes(dbArgs.databases)

\* C4 witness: a direct call has returned whose snapshot holds a record with
\* an empty protocol, on a collector whose tracked sets were non-empty and
\* different before the call.
C4_Witness ==
  /\ caller = "test"
  /\ DbUpdateDone
  /\ pre.lastDbProtocols # {}
  /\ pre.lastDbProtocols # lastDbProtocols
  /\ pre.lastDbTypes # lastDbTypes
  /\ \E i \in 1 .. Len(dbArgs.databases) : dbArgs.databases[i].Protocol = ""

\* C5 (as claimed): a protocol or type exported by the previous successful
\* update and absent from the current snapshot has no series after the
\* update (the series exported by that previous update is gone).
C5_VanishedSeriesDeleted ==
  (DbUpdateDone /\ caller = "collect") =>
    /\ \A k \in pre.lastDbProtocols \ SnapshotProtocols(dbArgs.databases) :
         <<prevArgs.clusterName, k>> \notin DOMAIN metrics.DatabasesByProtocolTotal
    /\ \A k \in pre.lastDbTypes \ SnapshotTypes(dbArgs.databases) :
         <<prevArgs.clusterName, k>> \notin DOMAIN metrics.DatabasesByTypeTotal

\* C6: no blanket reset. At every step of updateDatabaseMetrics and after
\* it, each series that existed when the routine was entered and whose key
\* is in the current snapshot is still exported, and every DeleteLabelValues
\* call issued so far names a key that was tracked and is absent from the
\* current snapshot.
C6_NoBlanketReset ==
  (caller = "test" /\ cycles > 0) =>
    /\ \A t \in DOMAIN pre.metrics.DatabasesByProtocolTotal :
         t[2] \in SnapshotProtocols(dbArgs.databases)
           => t \in DOMAIN metrics.DatabasesByProtocolTotal
    /\ \A t \in DOMAIN pre.metrics.DatabasesByTypeTotal :
         t[2] \in SnapshotTypes(dbArgs.databases)
           => t \in DOMAIN metrics.DatabasesByTypeTotal
    /\ \A d \in deleted :
         \/ /\ d[1] = "protocol"
            /\ d[3] \in pre.lastDbProtocols \ SnapshotProtocols(dbArgs.databases)
         \/ /\ d[1] = "type"
            /\ d[3] \in pre.lastDbTypes \ SnapshotTypes(dbArgs.databases)

\* C6 witness: in the middle of an update under an unchanged identity (the
\* protocol cleanup has run, the type loops have not), one protocol of the
\* previous snapshot survives with its series and another one was deleted.
C6_Witness ==
  /\ caller = "test"
  /\ pc = "dbSetTypes"
  /\ prevArgs.clusterName = dbArgs.clusterName
  /\ \E k \in pre.lastDbProtocols \cap SnapshotProtocols(dbArgs.databases) :
       <<dbArgs.clusterName, k>> \in DOMAIN metrics.DatabasesByProtocolTotal
  /\ \E d \in deleted : d[1] = "protocol"

\* C7: idempotence. A second call with the same identity and an identical
\* snapshot issues no deletion and leaves the tracked key sets and every
\* exported value as the first call left them, at every step of the call.
C7_Idempotent ==
  (caller = "test" /\ cycles >= 2 /\ prevArgs = dbArgs) =>
    /\ deleted = {}
    /\ metrics.DatabasesByProtocolTotal = pre.metrics.DatabasesByProtocolTotal
    /\ metrics.DatabasesByTypeTotal = pre.metrics.DatabasesByTypeTotal
    /\ metrics = pre.metrics
    /\ lastDbProtocols = pre.lastDbProtocols
    /\ lastDbTypes = pre.lastDbTypes
    /\ lastClusterName = pre.lastClusterName

\* C7 witness: the second of two identical calls with a two-record snapshot
\* has returned.
C7_Witness ==
  /\ caller = "test"
  /\ pc = "idle"
  /\ cycles >= 2
  /\ prevArgs = dbArgs
  /\ Len(dbArgs.databases) >= 2
  /\ lastDbProtocols # {}

\* the identity the most recent successful GetClusterName returned ("" when
\* none has succeeded): collect's local clusterName is assigned by a
\* successful identity fetch only and is carried over between cycles here
LastFetchedIdentity == clusterName

\* C11: once a poll cycle has run its identity fetch, and until the next
\* cycle's identity fetch, the connectivity gauge is 0 if that identity fetch
\* failed and 1 if it succeeded, however many per-kind fetches failed.
C11_ConnectivityGauge ==
  (cycles > 0 /\ caller # "test") =>
    metrics.TeleportUp = (IF "identity" \in failed THEN 0 ELSE 1)

\* C11 witness: a finished cycle in which all four per-kind fetches failed
\* after a cycle whose identity fetch had failed: the gauge went from 0 to 1.
C11_Witness ==
  /\ CycleDone
  /\ failed = Kinds
  /\ pre.metrics.TeleportUp = 0
  /\ pre.consecutiveErrors = 1
  /\ metrics.TeleportUp = 1

\* C12: the last-success timestamp differs from its value at the start of
\* the cycle only once the cycle has ended with no failure at all, and then
\* only by the series of the cycle's identity, stamped with the clock.
C12_TimestampOnlyOnCleanCycle ==
  (cycles > 0 /\ caller # "test") =>
    metrics.LastSuccessfulCollectTime =
      (IF CycleDone /\ failed = {}
         THEN [l \in DOMAIN pre.metrics.LastSuccessfulCollectTime \cup {clusterName} |->
                 IF l = clusterName THEN now
                 ELSE pre.metrics.LastSuccessfulCollectTime[l]]
         ELSE pre.metrics.LastSuccessfulCollectTime)

\* C12 witness: a finished cycle with exactly one failed fetch and three
\* updated kinds, after a clean cycle that had stamped the timestamp.
C12_Witness ==
  /\ CycleDone
  /\ failed = {"apps"}
  /\ updated = Kinds \ {"apps"}
  /\ pre.metrics.LastSuccessfulCollectTime # EmptyVec
  /\ metrics.LastSuccessfulCollectTime = pre.metrics.LastSuccessfulCollectTime

\* C12 second case: a clean cycle moved the timestamp.
C12_WitnessStamped ==
  /\ CycleDone
  /\ failed = {}
  /\ pre.metrics.LastSuccessfulCollectTime # EmptyVec
  /\ metrics.LastSuccessfulCollectTime # pre.metrics.LastSuccessfulCollectTime

\* C13: a cycle whose identity fetch failed has raised exactly one series of
\* the error-count metric by exactly one: the series of the identity the
\* most recent successful identity fetch returned, or of "unknown" when no
\* identity fetch has succeeded yet.
C13_ErrorCountedUnderLastIdentity ==
  (CycleDone /\ "identity" \in failed) =>
    LET label == IF LastFetchedIdentity = "" THEN "unknown" ELSE LastFetchedIdentity
        before == pre.metrics.CollectErrorsTotal
    IN /\ DOMAIN metrics.CollectErrorsTotal = DOMAIN before \cup {label}
       /\ \A l \in DOMAIN metrics.CollectErrorsTotal :
            metrics.CollectErrorsTotal[l] =
              (IF l \in DOMAIN before THEN before[l] ELSE 0) + (IF l = label THEN 1 ELSE 0)

\* C13 witness: the identity fetch fails in the cycle after one whose
\* identity fetch returned "A" and whose four per-kind fetches all failed.
C13_Witness ==
  /\ CycleDone
  /\ "identity" \in failed
  /\ LastFetchedIdentity = "A"
  /\ pre.metrics.NodesTotal = EmptyVec
  /\ pre.lastDbProtocols = {}
  /\ pre.metrics.CollectErrorsTotal = [l \in {"A"} |-> 4]
  /\ metrics.CollectErrorsTotal = [l \in {"A"} |-> 5]

\* C13 second case: no identity fetch has ever succeeded.
C13_WitnessUnknown ==
  /\ CycleDone
  /\ "identity" \in failed
  /\ LastFetchedIdentity = ""
  /\ metrics.CollectErrorsTotal = [l \in {"unknown"} |-> 2]

\* sum of the gauges of one family that carry the given identity
RECURSIVE SumOver(_, _)
SumOver(vec, keys) ==
  IF keys = {} THEN 0
  ELSE LET k == CHOOSE x \in keys : TRUE
       IN vec[k] + SumOver(vec, keys \ {k})

SumForIdentity(vec, identity) ==
  SumOver(vec, {l \in DOMAIN vec : l[1] = identity})

\* the first update on a fresh collector has returned
FreshDbUpdateDone == caller = "test" /\ pc = "idle" /\ cycles = 1

\* C14: after updateDatabaseMetrics(identity, snapshot) on a fresh collector
\* each by-protocol (by-type) gauge equals the number of records with that
\* protocol (type), an empty tag being counted under "unknown", so that the
\* by-protocol gauges and the by-type gauges of the identity both sum to the
\* total gauge, which is the number of records.
C14_BreakdownsSumToTotal ==
  FreshDbUpdateDone =>
    LET id == dbArgs.clusterName
        dbs == dbArgs.databases
        protocolOf(i) == IF dbs[i].Protocol = "" THEN "unknown" ELSE dbs[i].Protocol
        typeOf(i) == IF dbs[i].Type = "" THEN "unknown" ELSE dbs[i].Type
    IN /\ DOMAIN metrics.DatabasesByProtocolTotal =
            {<<id, protocolOf(i)>> : i \in 1 .. Len(dbs)}
       /\ DOMAIN metrics.DatabasesByTypeTotal =
            {<<id, typeOf(i)>> : i \in 1 .. Len(dbs)}
       /\ \A l \in DOMAIN metrics.DatabasesByProtocolTotal :
            metrics.DatabasesByProtocolTotal[l] =
              Cardinality({i \in 1 .. Len(dbs) : protocolOf(i) = l[2]})
       /\ \A l \in DOMAIN metrics.DatabasesByTypeTotal :
            metrics.DatabasesByTypeTotal[l] =
              Cardinality({i \in 1 .. Len(dbs) : typeOf(i) = l[2]})
       /\ metrics.DatabasesTotal = [l \in {id} |-> Len(dbs)]
       /\ SumForIdentity(metrics.DatabasesByProtocolTotal, id) = Len(dbs)
       /\ SumForIdentity(metrics.DatabasesByTypeTotal, id) = Len(dbs)

\* C14 witness: a fresh collector was given two records, one with an empty
\* protocol and one with an empty type; both "unknown" buckets are exported.
C14_Witness ==
  /\ FreshDbUpdateDone
  /\ Len(dbArgs.databases) = 2
  /\ \E i \in 1 .. 2 : dbArgs.databases[i].Protocol = ""
  /\ \E i \in 1 .. 2 : dbArgs.databases[i].Type = ""
  /\ <<dbArgs.clusterName, "unknown">> \in DOMAIN metrics.DatabasesByProtocolTotal
  /\ <<dbArgs.clusterName, "unknown">> \in DOMAIN metrics.DatabasesByTypeTotal

\* ------------------------------------------------- Run and the poll cycle
\* positions at which a fetch call to the inventory source is outstanding
FetchPcs == {"idle", "getNodes", "getKubeClusters", "getDatabases", "getApps"}
\* positions inside updateDatabaseMetrics
DbPcs == {"dbCount", "dbSetProtocols", "dbDeleteProtocols", "dbSetTypes",
          "dbDeleteTypes", "dbCommit"}
\* positions inside collect
CollectPcs == FetchPcs \cup DbPcs \cup {"finish"}

FetchOrder == <<"identity", "nodes", "kube", "databases", "apps">>

\* the fetch operations invoked so far in the running cycle, in call order
FetchOps == [i \in 1 .. Len(fetchLog) |-> fetchLog[i][1]]

\* the last cycle ran to its end: abandoned right after a failed identity
\* fetch, or all five fetches made and the closing bookkeeping done
LastCycleComplete ==
  \/ /\ "identity" \in failed
     /\ Len(fetchLog) = 1
     /\ updated = {}
  \/ /\ "identity" \notin failed
     /\ Len(fetchLog) = 5
     /\ failed \cup updated = Kinds
     /\ clusterName \in DOMAIN metrics.CollectDuration
     /\ consecutiveErrors = (IF failed = {} THEN 0 ELSE pre.consecutiveErrors + 1)

\* C15: Run draws a startup delay d with 0 <= d < refreshInterval / 4; a
\* poll cycle starts only when d has elapsed since Run started (at time 0);
\* calculateNextInterval is not called before the first cycle has returned;
\* and when the context is cancelled while Run is blocked in the startup
\* select, Run returns without any poll cycle.
C15_StartupDelay ==
  run.active =>
    /\ pc \notin {"runStart", "panicked"} =>
         /\ 0 <= run.initialJitter
         /\ 4 * run.initialJitter < refreshInterval
    /\ (pc \in CollectPcs \/ cycles > 0) => now >= run.initialJitter
    /\ run.calcs <= run.completed
    /\ cycles = 0 => ~calc.done
    /\ run.cancelledAt = "startupWait" =>
         /\ cycles = 0
         /\ pc \in {"startupWait", "returned"}

\* C15 witness: Run has returned after a cancellation that arrived while it
\* was blocked on a non-zero startup delay; no cycle ran.
C15_Witness ==
  /\ run.active
  /\ pc = "returned"
  /\ run.cancelledAt = "startupWait"
  /\ run.initialJitter > 0
  /\ cycles = 0
  /\ fetchLog = <<>>

\* C15 second case: the first cycle started when a non-zero delay had
\* elapsed, and the first interval was computed after it.
C15_WitnessFirstCycle ==
  /\ run.active
  /\ pc = "loopWait"
  /\ run.initialJitter > 0
  /\ startTime = run.initialJitter
  /\ cycles = 1
  /\ run.calcs = 1

\* C16: when the context is cancelled while Run is blocked in a select whose
\* timer has not fired, Run stays at that wait point until it returns and no
\* poll cycle starts after the cancellation; and whenever Run has returned,
\* every cycle it started has run to its end.
C16_CancelledSleepExits ==
  run.active =>
    /\ run.cancelledAt \in {"startupWait", "loopWait"} =>
         /\ cycles = run.cyclesAtCancel
         /\ pc \in {run.cancelledAt, "returned"}
    /\ pc = "returned" =>
         /\ ctxDone
         /\ run.completed = cycles
         /\ mu = "unlocked"
         /\ cycles > 0 => LastCycleComplete

\* C16 witness: Run has returned after a cancellation that arrived while it
\* was blocked in the loop's select, after one complete cycle.
C16_Witness ==
  /\ run.active
  /\ pc = "returned"
  /\ run.cancelledAt = "loopWait"
  /\ cycles = 1
  /\ run.completed = 1
  /\ Len(fetchLog) = 5

\* C17 (as claimed): when the context is cancelled while a poll cycle is in
\* progress, no fetch of that cycle fails because of the cancellation: none
\* returns the context's error.
C17_NoFetchCutShort ==
  (run.active /\ run.cancelledAt \in CollectPcs /\ cycles = run.cyclesAtCancel
     + (IF run.cancelledAt = "idle" THEN 1 ELSE 0)) =>
    \A i \in 1 .. Len(fetchLog) : fetchLog[i][2] # "canceled"

\* C18: at most one poll cycle is in progress, and Run computes the next
\* interval and blocks in the loop's select only when the cycle it called
\* has returned, having run to its end or been abandoned on identity
\* failure; one interval is computed per returned cycle.
C18_SequentialCycles ==
  run.active =>
    /\ cycles - run.completed = (IF pc \in CollectPcs \ {"idle"} THEN 1 ELSE 0)
    /\ pc \in {"calc", "loopWait"} =>
         /\ cycles > 0
         /\ LastCycleComplete
         /\ mu = "unlocked"
    /\ pc = "calc" => run.calcs = run.completed - 1
    /\ pc = "loopWait" => run.calcs = run.completed

\* C18 witness: Run is blocked in the loop's select after a cycle that made
\* all five fetches, two of which failed.
C18_Witness ==
  /\ run.active
  /\ pc = "loopWait"
  /\ run.completed = 1
  /\ Len(fetchLog) = 5
  /\ Cardinality(failed) = 2
  /\ ~ctxDone

\* C18 second case: the cycle was abandoned on identity failure.
C18_WitnessAbandoned ==
  /\ run.active
  /\ pc = "loopWait"
  /\ failed = {"identity"}
  /\ run.completed = 1

\* C19: the fetches invoked in a cycle are an initial part of the fixed
\* order identity, nodes, sub-clusters, data stores, applications, each at
\* most once; a finished cycle made all five, or the identity fetch alone
\* when that failed; a failed fetch appears once in the cycle's calls.
C19_FetchOrderNoRetry ==
  (cycles > 0 /\ caller # "test") =>
    /\ Len(fetchLog) <= Len(FetchOrder)
    /\ FetchOps = SubSeq(FetchOrder, 1, Len(fetchLog))
    /\ \A k \in failed :
         Cardinality({i \in 1 .. Len(fetchLog) : fetchLog[i][1] = k}) = 1
    /\ CycleDone => Len(fetchLog) = (IF "identity" \in failed THEN 1 ELSE 5)

\* C19 witness: the second cycle fetched the nodes successfully after the
\* first cycle's node fetch had failed, and its own sub-cluster fetch failed
\* without being repeated.
C19_Witness ==
  /\ CycleDone
  /\ cycles = 2
  /\ pre.metrics.NodesTotal = EmptyVec
  /\ pre.metrics.KubeClustersTotal # EmptyVec
  /\ "nodes" \in updated
  /\ failed = {"kube"}
  /\ Len(fetchLog) = 5

\* C20: c.mu is free wherever a fetch call is outstanding; it is held only
\* inside updateDatabaseMetrics (the other critical sections, :145-147,
\* :102-104 and the error counter, contain no fetch and are single steps).
C20_NoLockAcrossFetch ==
  /\ pc \in FetchPcs => mu = "unlocked"
  /\ mu = "locked" => pc \in DbPcs
  /\ pc \in DbPcs => mu = "locked"

\* C20 witness: the application fetch is outstanding after
\* updateDatabaseMetrics has run under the lock and returned.
C20_Witness ==
  /\ caller = "collect"
  /\ pc = "getApps"
  /\ "databases" \in updated
  /\ lastDbProtocols # {}
  /\ mu = "unlocked"

\* C20 second case: the lock is held in the middle of the update routine.
C20_WitnessHeld ==
  /\ caller = "collect"
  /\ pc = "dbDeleteProtocols"
  /\ mu = "locked"

\* C21 (as claimed): every access to the tracked key sets, the
\* consecutive-error counter and the last-known identity is made under
\* c.mu: a read with the lock held in read or write mode, a write with the
\* lock held in write mode.
C21_AccessesUnderLock ==
  \A a \in accesses :
    /\ a[2] = "read" => a[3] \in {"R", "W"}
    /\ a[2] = "write" => a[3] = "W"

\* C22: as long as the context is not cancelled, a poll cycle that is in
\* progress or has returned (after an identity failure, after any
\* per-kind failures or after none) is followed by Run calling collect
\* again.
C22_NextCycleStarts ==
  \A n \in 1 .. MaxRunCycles :
    (/\ run.active
     /\ ~ctxDone
     /\ cycles = n
     /\ pc \in (CollectPcs \ {"idle"}) \cup {"calc", "loopWait"})
      ~> ((pc = "idle" /\ run.completed = n) \/ ctxDone)

\* C22 witness: Run has called collect again after a cycle that was
\* abandoned on identity failure.
C22_Witness ==
  /\ run.active
  /\ ~ctxDone
  /\ pc = "idle"
  /\ run.completed = 1
  /\ failed = {"identity"}
  /\ consecutiveErrors = 1

\* C22 second case: collect is called again after a cycle in which all
\* four per-kind fetches failed.
C22_WitnessAllKindsFailed ==
  /\ run.active
  /\ ~ctxDone
  /\ pc = "idle"
  /\ run.completed = 1
  /\ failed = Kinds

\* C30: whatever number of failures the counter held, the interval
\* computed right after a reset of the counter (the end of a cycle without
\* failures) lies within +/-10% of the base refresh interval.
C30_CleanCycleRestoresPacing ==
  pacing.phase = "interval" =>
    /\ calc.done
    /\ calc.errors = 0
    /\ WithinTenPercent(calc.value, refreshInterval)

\* C30 witness: the counter stood beyond the multiplier cap when it was
\* reset, and the next interval has been computed.
C30_Witness ==
  /\ pacing.phase = "interval"
  /\ pacing.wiped > maxBackoffMultiplier
  /\ calc.done
  /\ refreshInterval = 60
  /\ calc.value # refreshInterval

\* ------------------------------------------- shutdown (SpecRunLive)
\* poll cycles whose call of collect came after the shutdown signal (a
\* signal that arrives when collect has just been called belongs to the
\* cycle already started)
StartedAfterSignal ==
  LET since == cycles - run.cyclesAtCancel
  IN IF run.cancelledAt = "idle" /\ since > 0 THEN since - 1 ELSE since

\* the exploration stops at a call of collect beyond the cycle bound
AtCycleBound == pc = "idle" /\ cycles >= MaxRunCycles

\* C33: once the context is cancelled, and with every fetch call returning,
\* Run returns; at most one poll cycle starts after the signal, and that
\* one only at a select which found its timer and ctx.Done() both ready.
C33_RunReturnsAfterCancel ==
  /\ [](ctxDone =>
          /\ StartedAfterSignal <= 1
          /\ StartedAfterSignal = 1 =>
               /\ run.cancelledAt = "runStart"
               /\ run.initialJitter = 0)
  /\ (ctxDone /\ refreshInterval \div 4 > 0 /\ ~AtCycleBound) ~> (pc = "returned")

\* C33 witness: Run has returned after a signal that arrived in the middle
\* of a poll cycle, whose remaining fetches returned the context's error.
C33_Witness ==
  /\ pc = "returned"
  /\ ctxDone
  /\ run.cancelledAt = "getKubeClusters"
  /\ StartedAfterSignal = 0
  /\ run.completed = 1
  /\ failed = {"kube", "databases", "apps"}

\* C33 second case: the signal came before the first select, whose timer
\* of zero was ready as well; one cycle started after the signal and then
\* Run returned.
C33_WitnessOneMoreCycle ==
  /\ pc = "returned"
  /\ ctxDone
  /\ run.cancelledAt = "runStart"
  /\ run.initialJitter = 0
  /\ StartedAfterSignal = 1
  /\ run.completed = 1

\* --------------------------------------------- cycle bookkeeping (Spec)
\* the value a scrape shows for a label: a counter that was never
\* incremented has no series
ValueOf(vec, l) == IF l \in DOMAIN vec THEN vec[l] ELSE 0

\* the label under which the running cycle counts its errors
CycleErrorLabel ==
  IF "identity" \in failed
    THEN IF pre.lastClusterName = "" THEN "unknown" ELSE pre.lastClusterName
    ELSE clusterName

\* C31: from the start of a poll cycle on, the error-count metric has risen
\* by exactly the number of fetches that have failed in the cycle, under the
\* cycle's identity label; no other label has changed and none has gone
\* down or away; the consecutive-error counter has risen by at most 1.
C31_ErrorsCountedPerFailure ==
  cycles > 0 =>
    /\ \A l \in DOMAIN pre.metrics.CollectErrorsTotal :
         /\ l \in DOMAIN metrics.CollectErrorsTotal
         /\ metrics.CollectErrorsTotal[l] >= pre.metrics.CollectErrorsTotal[l]
    /\ \A l \in (DOMAIN metrics.CollectErrorsTotal) \cup {CycleErrorLabel} :
         ValueOf(metrics.CollectErrorsTotal, l)
           = ValueOf(pre.metrics.CollectErrorsTotal, l)
               + (IF l = CycleErrorLabel THEN Cardinality(failed) ELSE 0)
    /\ "identity" \in failed => failed = {"identity"}
    /\ consecutiveErrors <= pre.consecutiveErrors + 1

\* C31 witness: a finished cycle in which all four per-kind fetches failed,
\* after an earlier cycle that had already counted an error under the same
\* identity.
C31_Witness ==
  /\ CycleDone
  /\ failed = Kinds
  /\ pre.metrics.CollectErrorsTotal = (clusterName :> 1)
  /\ metrics.CollectErrorsTotal[clusterName] = 5
  /\ pre.consecutiveErrors = 1
  /\ consecutiveErrors = 2

\* C31 second case: an identity failure counted once under the last-known
\* identity.
C31_WitnessIdentity ==
  /\ CycleDone
  /\ failed = {"identity"}
  /\ pre.lastClusterName = "A"
  /\ ValueOf(pre.metrics.CollectErrorsTotal, "A") = 0
  /\ metrics.CollectErrorsTotal["A"] = 1

\* C32: the collection-duration metric is written, under the cycle's
\* identity, by every cycle whose identity fetch succeeded, whatever the
\* per-kind fetches did, and by no cycle whose identity fetch failed; it is
\* written at the end of the cycle and no other label is touched.
C32_DurationWrittenIffIdentityOk ==
  cycles > 0 =>
    /\ (~CycleDone \/ "identity" \in failed) =>
         metrics.CollectDuration = pre.metrics.CollectDuration
    /\ (CycleDone /\ "identity" \notin failed) =>
         /\ (DOMAIN metrics.CollectDuration)
              = (DOMAIN pre.metrics.CollectDuration) \cup {clusterName}
         /\ metrics.CollectDuration[clusterName] = now - startTime
         /\ \A l \in (DOMAIN pre.metrics.CollectDuration) \ {clusterName} :
              metrics.CollectDuration[l] = pre.metrics.CollectDuration[l]

\* C32 witness: a finished cycle in which all four per-kind fetches failed
\* has written the duration under its identity, next to the duration an
\* earlier cycle exported under the other identity.
C32_Witness ==
  /\ CycleDone
  /\ failed = Kinds
  /\ pre.metrics.CollectDuration # EmptyVec
  /\ clusterName \notin DOMAIN pre.metrics.CollectDuration
  /\ metrics.CollectDuration[clusterName] = now - startTime
  /\ now - startTime > 0

\* C32 second case: a cycle abandoned on identity failure with a duration
\* already exported.
C32_WitnessIdentityFailed ==
  /\ CycleDone
  /\ failed = {"identity"}
  /\ pre.metrics.CollectDuration # EmptyVec
  /\ metrics.CollectDuration = pre.metrics.CollectDuration

\* C34 (as claimed): every DeleteLabelValues call that updateDatabaseMetrics
\* issues from collect for a vanished protocol or type carries the identity
\* of the previous data-store update and names a series that existed when
\* the routine was entered.
C34_DeletionsHitExistingSeries ==
  caller = "collect" =>
    \A d \in deleted :
      /\ d[2] = prevArgs.clusterName
      /\ <<d[2], d[3]>> \in
           DOMAIN (IF d[1] = "protocol" THEN pre.metrics.DatabasesByProtocolTotal
                                        ELSE pre.metrics.DatabasesByTypeTotal)

\* the total gauge of a kind, in the metrics of a snapshot
TotalOf(kind, m) ==
  CASE kind = "nodes" -> m.NodesTotal
    [] kind = "kube" -> m.KubeClustersTotal
    [] kind = "databases" -> m.DatabasesTotal
    [] kind = "apps" -> m.AppsTotal

\* this cycle fetched the kind successfully under the identity
FetchedUnder(kind, identity) ==
  /\ "identity" \notin failed
  /\ clusterName = identity
  /\ kind \in updated
  /\ kind \notin failed

\* C35: a total gauge exported before a poll cycle is still exported at
\* every point of the cycle; its value differs from the one at the start of
\* the cycle, and a new one appears, only under the identity the cycle
\* fetched and for a kind whose fetch succeeded in it.
C35_TotalsKeptUntilRefetched ==
  cycles > 0 =>
    \A k \in Kinds :
      /\ \A l \in DOMAIN TotalOf(k, pre.metrics) :
           /\ l \in DOMAIN TotalOf(k, metrics)
           /\ TotalOf(k, metrics)[l] # TotalOf(k, pre.metrics)[l] => FetchedUnder(k, l)
      /\ \A l \in (DOMAIN TotalOf(k, metrics)) \ (DOMAIN TotalOf(k, pre.metrics)) :
           FetchedUnder(k, l)

\* C35 witness: a finished cycle under the identity of the cycle before, in
\* which all four per-kind fetches failed, with every total still at the
\* non-zero value the earlier cycle had exported.
C35_Witness ==
  /\ CycleDone
  /\ failed = Kinds
  /\ \A k \in Kinds :
       /\ clusterName \in DOMAIN TotalOf(k, pre.metrics)
       /\ TotalOf(k, pre.metrics)[clusterName] > 0
       /\ TotalOf(k, metrics) = TotalOf(k, pre.metrics)

\* C35 second case: a cycle under another identity has changed the
\* inventory totals of its own identity and left the earlier identity's
\* totals as they were.
C35_WitnessOtherIdentity ==
  /\ CycleDone
  /\ failed = {}
  /\ pre.lastClusterName \notin {"", clusterName}
  /\ \A k \in Kinds :
       /\ pre.lastClusterName \in DOMAIN TotalOf(k, pre.metrics)
       /\ TotalOf(k, metrics)[pre.lastClusterName]
            = TotalOf(k, pre.metrics)[pre.lastClusterName]
       /\ clusterName \in DOMAIN TotalOf(k, metrics)

\* ------------------------------------- scrapes during an update (SpecDb)
\* C36 (as claimed): the metrics handler takes no lock, so it can read the
\* registry in any state; in each of them the by-protocol gauges of the
\* identity being updated add up to the same number as its by-type gauges,
\* and that number is its data-store total gauge.
C36_ScrapeSeesConsistentView ==
  dbArgs.clusterName # "" =>
    /\ SumForIdentity(metrics.DatabasesByProtocolTotal, dbArgs.clusterName)
         = ValueOf(metrics.DatabasesTotal, dbArgs.clusterName)
    /\ SumForIdentity(metrics.DatabasesByTypeTotal, dbArgs.clusterName)
         = ValueOf(metrics.DatabasesTotal, dbArgs.clusterName)

\* --------------------------------------- the inventory client (SpecClient)
ListCallDone ==
  probe.fn \in {"GetKubeClusters", "GetDatabases", "GetApps"} /\ probe.done

\* C37: a list call of the inventory client that meets an API error
\* returns the error and no records; otherwise it returns one record for
\* each distinct name among the servers whose resource is not nil, taken
\* from the last such server in the list, so that the number of records
\* (the total gauge) is the number of distinct names.
C37_OneRecordPerName ==
  ListCallDone =>
    LET servers == probe.arg.servers
        records == probe.result.records
        live == {i \in 1 .. Len(servers) : servers[i].present}
        names == {servers[i].Name : i \in live}
    IN IF probe.arg.apiError
         THEN probe.result.err /\ records = <<>>
         ELSE /\ ~probe.result.err
              /\ Len(records) = Cardinality(names)
              /\ {records[i].Name : i \in 1 .. Len(records)} = names
              /\ \A i \in 1 .. Len(records) :
                   \E j \in live :
                     /\ servers[j].Name = records[i].Name
                     /\ servers[j].Tag = records[i].Tag
                     /\ \A k \in live : servers[k].Name = records[i].Name => k <= j
              /\ updateAppMetrics(metrics, "A", records).AppsTotal["A"]
                   = Cardinality(names)

\* C37 witness: two servers serve the same name with different fields; one
\* record comes back, with the fields of the second server.
C37_Witness ==
  /\ ListCallDone
  /\ probe.fn = "GetDatabases"
  /\ probe.arg.servers = <<[present |-> TRUE, Name |-> "x", Tag |-> "1"],
                           [present |-> TRUE, Name |-> "x", Tag |-> "2"]>>
  /\ probe.result.records = <<[Name |-> "x", Tag |-> "2"]>>

\* C37 second case: a server whose resource is nil is skipped.
C37_WitnessNilSkipped ==
  /\ ListCallDone
  /\ probe.fn = "GetKubeClusters"
  /\ probe.arg.servers = <<NilResource, [present |-> TRUE, Name |-> "y", Tag |-> "1"]>>
  /\ Len(probe.result.records) = 1

\* C37 third case: an API error gives the error and no records.
C37_WitnessError ==
  /\ ListCallDone
  /\ probe.fn = "GetApps"
  /\ probe.arg.apiError
  /\ probe.result.err
  /\ probe.result.records = <<>>

\* ------------------------------------------- composite keys (SpecKey)
\* C38 (as claimed): for every record, decoding the key built from its
\* normalised protocol and type gives back exactly these two fields.
C38_KeyRoundTrip ==
  (probe.fn = "splitKey" /\ probe.done) =>
    probe.result.parts
      = <<NormalizeField(probe.arg.Protocol), NormalizeField(probe.arg.Type)>>

\* C38, what does hold: the round trip is exact for every record whose
\* protocol and type are free of the delimiter.
C38_KeyRoundTripWithoutDelimiter ==
  (/\ probe.fn = "splitKey"
   /\ probe.done
   /\ \A i \in 1 .. Len(probe.arg.Protocol) : probe.arg.Protocol[i] # "|"
   /\ \A i \in 1 .. Len(probe.arg.Type) : probe.arg.Type[i] # "|") =>
    probe.result.parts
      = <<NormalizeField(probe.arg.Protocol), NormalizeField(probe.arg.Type)>>

\* ------------------------------- the inference helpers (SpecInfer)
\* the node has a priority label with a non-empty value
HasQualifyingLabel(node) ==
  \E i \in 1 .. Len(clusterLabels) :
    /\ clusterLabels[i] \in DOMAIN node.Labels
    /\ node.Labels[clusterLabels[i]] # <<>>

ExtractDone == probe.fn = "extractKubeCluster" /\ probe.done

\* C23: extractKubeCluster returns the value of the first key of the fixed
\* order that is present with a non-empty value, whatever the hostname; a
\* key present with an empty value is passed over.
C23_LabelPriority ==
  ExtractDone =>
    \A i \in 1 .. Len(clusterLabels) :
      (/\ clusterLabels[i] \in DOMAIN probe.arg.Labels
       /\ probe.arg.Labels[clusterLabels[i]] # <<>>
       /\ \A j \in 1 .. i - 1 :
            \/ clusterLabels[j] \notin DOMAIN probe.arg.Labels
            \/ probe.arg.Labels[clusterLabels[j]] = <<>>)
        => probe.result = probe.arg.Labels[clusterLabels[i]]

\* C23 witness: the first key is present but empty, the second is absent,
\* the fourth and fifth both carry a value, and the hostname has a second
\* segment: the fourth key's value is returned.
C23_Witness ==
  /\ ExtractDone
  /\ probe.arg.Hostname = <<"h", ".", "c">>
  /\ DOMAIN probe.arg.Labels =
       {"giantswarm.io/cluster", "kube-cluster", "teleport.dev/kubernetes-cluster"}
  /\ probe.arg.Labels["giantswarm.io/cluster"] = <<>>
  /\ probe.arg.Labels["teleport.dev/kubernetes-cluster"] # <<>>
  /\ probe.result = LabelValue("kube-cluster")

\* the positions of the dots of a hostname, and the segment between its
\* first dot and its second dot (or its end)
DotPositions(s) == {i \in 1 .. Len(s) : s[i] = "."}
SecondSegment(s) ==
  LET d1 == CHOOSE i \in DotPositions(s) : \A j \in DotPositions(s) : i <= j
      later == DotPositions(s) \ {d1}
      d2 == IF later = {} THEN Len(s) + 1
            ELSE CHOOSE i \in later : \A j \in later : i <= j
  IN SubSeq(s, d1 + 1, d2 - 1)

\* C24 (as claimed): with no qualifying label, extractKubeCluster returns
\* the second dot-separated segment of every hostname that contains a dot
\* (leading, trailing and consecutive dots included) and "unknown" for a
\* hostname that is empty or has no dot.
C24_HostnameSecondSegment ==
  (ExtractDone /\ ~HasQualifyingLabel(probe.arg)) =>
    probe.result = IF DotPositions(probe.arg.Hostname) # {}
                     THEN SecondSegment(probe.arg.Hostname)
                     ELSE Unknown

\* C25: isWorkloadCluster(name) is true exactly when the name contains a
\* hyphen; it is false for the empty name.
C25_WorkloadIffHyphen ==
  (probe.fn = "isWorkloadCluster" /\ probe.done) =>
    (probe.result <=> "-" \in {probe.arg[i] : i \in 1 .. Len(probe.arg)})

\* C25 witness: a name whose only hyphen is its first character is
\* classified workload.
C25_Witness ==
  /\ probe.fn = "isWorkloadCluster"
  /\ probe.done
  /\ probe.arg = <<"-", "g">>
  /\ probe.result

\* C25 second case: the empty name is classified management.
C25_WitnessEmpty ==
  /\ probe.fn = "isWorkloadCluster"
  /\ probe.done
  /\ probe.arg = <<>>
  /\ ~probe.result

\* ------------------ the kube and node updates (SpecKubeUpdates, SpecNodeUpdates)
\* C26: after updateKubeClusterMetrics(identity, clusters) the management
\* and workload gauges of the identity add up to its total gauge, the
\* total is the number of records, and the workload gauge is the number of
\* records whose name contains a hyphen.
C26_KubeGauges ==
  probe.fn = "updateKubeClusterMetrics" =>
    LET cn == probe.arg[1]
        clusters == probe.arg[2]
        hyphened == {i \in 1 .. Len(clusters) :
                       "-" \in {clusters[i].Name[j] : j \in 1 .. Len(clusters[i].Name)}}
    IN /\ metrics.KubeManagementClustersTotal[cn] + metrics.KubeWorkloadClustersTotal[cn]
            = metrics.KubeClustersTotal[cn]
       /\ metrics.KubeClustersTotal[cn] = Len(probe.arg[2])
       /\ metrics.KubeWorkloadClustersTotal[cn] = Cardinality(hyphened)

\* C26 witness: an update with one management and one workload record
\* that replaces the gauges of an earlier, different snapshot of the same
\* identity.
C26_Witness ==
  /\ probe.fn = "updateKubeClusterMetrics"
  /\ probe.arg = <<"A", <<KubeManagement, KubeWorkload>> >>
  /\ metrics.KubeWorkloadClustersTotal["A"] = 1
  /\ metrics.KubeManagementClustersTotal["A"] = 1
  /\ "B" \in DOMAIN metrics.KubeClustersTotal

\* the hostname gives a name: it is not empty and splits into two parts
\* or more
HasHostnameName(node) ==
  node.Hostname # <<>> /\ Len(splitByDot(node.Hostname)) >= 2

\* C27 (as claimed): after updateNodeMetrics(identity, nodes) the
\* identified and unidentified gauges of the identity add up to its total
\* gauge, the total is the number of nodes, and the unidentified gauge is
\* the number of nodes with neither a qualifying label nor a name derived
\* from the hostname.
C27_NodeGauges ==
  probe.fn = "updateNodeMetrics" =>
    LET cn == probe.arg[1]
        nodes == probe.arg[2]
        unnamed == {i \in 1 .. Len(nodes) :
                      /\ ~HasQualifyingLabel(nodes[i])
                      /\ ~HasHostnameName(nodes[i])}
    IN /\ metrics.NodesIdentifiedTotal[cn] + metrics.NodesUnidentifiedTotal[cn]
            = metrics.NodesTotal[cn]
       /\ metrics.NodesTotal[cn] = Len(nodes)
       /\ metrics.NodesUnidentifiedTotal[cn] = Cardinality(unnamed)

\* ------------------------------------------ the sub-kind revision (SpecTracked)
NodeUpdateDone == cycles > 0 /\ nodeCall.kind = "nodes"

NodeSubKinds ==
  {IF nodeCall.nodes[i].SubKind = "" THEN "default" ELSE nodeCall.nodes[i].SubKind :
     i \in 1 .. Len(nodeCall.nodes)}

\* C28: after the sub-kind-grouping node update, the breakdown gauge of
\* each sub-kind of the snapshot (an empty one counted as "default") is the
\* number of nodes of that sub-kind, the total gauge is the number of
\* nodes, and the breakdown gauges of the snapshot's sub-kinds add up to
\* the total.
C28_SubKindCounts ==
  NodeUpdateDone =>
    LET cn == nodeCall.clusterName
        nodes == nodeCall.nodes
        tagOf(i) == IF nodes[i].SubKind = "" THEN "default" ELSE nodes[i].SubKind
    IN /\ \A s \in NodeSubKinds :
            /\ <<cn, s>> \in DOMAIN nodeTracker.NodeInfo
            /\ nodeTracker.NodeInfo[<<cn, s>>]
                 = Cardinality({i \in 1 .. Len(nodes) : tagOf(i) = s})
       /\ nodeTracker.NodesTotal[cn] = Len(nodes)
       /\ SumOver(nodeTracker.NodeInfo, {<<cn, s>> : s \in NodeSubKinds}) = Len(nodes)

\* C28 witness: a snapshot of two nodes, one with an empty sub-kind, on a
\* collector that had exported another breakdown before.
C28_Witness ==
  /\ NodeUpdateDone
  /\ nodeCall.pre.lastNodes = {"openssh"}
  /\ Len(nodeCall.nodes) = 2
  /\ NodeSubKinds = {"default", "teleport"}
  /\ nodeTracker.NodeInfo[<<nodeCall.clusterName, "default">>] = 1

PresenceUpdateDone == cycles > 0 /\ nodeCall.kind \in {"kube", "apps"}

\* the presence series and the total gauge of the kind updated last
PresenceSeries ==
  IF nodeCall.kind = "kube" THEN nodeTracker.KubeClusterInfo ELSE nodeTracker.AppInfo
PresenceTotal ==
  IF nodeCall.kind = "kube" THEN nodeTracker.KubeClustersTotal
                            ELSE nodeTracker.AppsTotal

\* C29 (as claimed): after the presence-series update of sub-clusters or
\* applications, the exported presence series of the kind are exactly one
\* per distinct name of the snapshot, under the identity of the call, each
\* with value 1, and the kind's total gauge is the number of records.
C29_PresenceSeriesMatchSnapshot ==
  PresenceUpdateDone =>
    LET names == {nodeCall.nodes[i].Name : i \in 1 .. Len(nodeCall.nodes)}
    IN /\ DOMAIN PresenceSeries = {<<nodeCall.clusterName, n>> : n \in names}
       /\ \A l \in DOMAIN PresenceSeries : PresenceSeries[l] = 1
       /\ PresenceTotal[nodeCall.clusterName] = Len(nodeCall.nodes)

\* C29, what does hold: every name of the snapshot has its series under
\* the identity of the call with value 1, the names that vanished since
\* the kind's previous update have none under the identity recorded
\* last, and the total gauge is the number of records.
C29_PresenceOfSnapshotNames ==
  PresenceUpdateDone =>
    LET names == {nodeCall.nodes[i].Name : i \in 1 .. Len(nodeCall.nodes)}
    IN /\ \A n \in names :
            /\ <<nodeCall.clusterName, n>> \in DOMAIN PresenceSeries
            /\ PresenceSeries[<<nodeCall.clusterName, n>>] = 1
       /\ \A t \in nodeCall.deleted : t \notin DOMAIN PresenceSeries
       /\ PresenceTotal[nodeCall.clusterName] = Len(nodeCall.nodes)

\* C4, node sub-kinds of the earlier revision: after its node update the
\* tracked set lastNodes is exactly the set of sub-kinds of the snapshot just
\* processed, each of them exported under the current identity.
C4_SubKindTrackedEqualsSnapshot ==
  NodeUpdateDone =>
    /\ nodeTracker.lastNodes = NodeSubKinds
    /\ \A k \in NodeSubKinds : <<nodeCall.clusterName, k>> \in DOMAIN nodeTracker.NodeInfo

C4_SubKindWitness ==
  /\ NodeUpdateDone
  /\ nodeCall.pre.lastNodes # {}
  /\ nodeCall.pre.lastNodes \ nodeTracker.lastNodes # {}
  /\ nodeTracker.lastNodes \ nodeCall.pre.lastNodes # {}

\* C5, node sub-kinds of the earlier revision called directly: a sub-kind
\* exported by the previous update and absent from the current snapshot has no
\* series under the identity the collector had recorded last.
C5_SubKindVanishedDeleted ==
  NodeUpdateDone =>
    \A k \in nodeCall.pre.lastNodes \ NodeSubKinds :
      <<nodeCall.pre.lastClusterName, k>> \notin DOMAIN nodeTracker.NodeInfo

C5_SubKindWitness ==
  /\ NodeUpdateDone
  /\ nodeCall.deleted # {}
  /\ nodeCall.pre.lastClusterName # nodeCall.clusterName
====
